---- MODULE Spec2Model ----
(***************************************************************************)
(* Ordered-ingestion coordinator of gcs_ocn_bq_ingest (tools/ variant).    *)
(*                                                                         *)
(* One bucket and one table prefix are modelled.  The state is the content *)
(* of the object store under that prefix (success markers, claim objects,  *)
(* backlog objects, the _BACKFILL sentinel, the _bqlock object), the      *)
(* warehouse's jobs, and the position and local variables of every running *)
(* invocation of the cloud function.  Every action is one object-store or  *)
(* warehouse call of the source together with the local control flow that  *)
(* follows it up to the next call; calls of different invocations          *)
(* interleave arbitrarily.  Wall-clock comparisons are nondeterministic.   *)
(*                                                                         *)
(* main.py:91-93 passes five positional arguments to backlog_subscriber,   *)
(* which ordering.py:51-52 declares with four parameters, and              *)
(* ordering.py:119 reads constants.ENSURE_SUBSCRIBER_SECONDS, which        *)
(* constants.py does not define.  The model follows the body of            *)
(* backlog_subscriber as written, with backfill_blob the notified blob,    *)
(* and treats the elapsed-time test of line 119 as a wall-clock comparison.*)
(***************************************************************************)
EXTENDS Integers, Sequences, FiniteSets, TLC

\* ---------------------------------------------------------------- bounds
NBatch == 2        \* success markers (batches) under the table prefix
NSub == 2          \* concurrently running subscriber invocations
NUno == 3          \* invocations of the unordered path
MaxJobs == 2       \* job ids created over a run
MaxGen == 2        \* generations of _BACKFILL written over a run
MaxDup == 1        \* repeated deliveries of _SUCCESS notifications (ordered path)
MaxBacklogNotes == 1 \* notifications of backlog objects handled
MaxLabelMiddle == 3 \* path tokens between table and marker, label runs
MaxDeleted == 1    \* success markers deleted from the bucket
MaxTs == 2         \* uploads of one success marker (creation timestamps)
MaxTicks == 2      \* polling periods an invocation has before its restart time
MaxNotes == 3      \* notifications one process handles (entry of main)
MaxSize == 4       \* largest object size in bytes
\* The batcher's limits, scaled down from 15 * 10**12 bytes (or the
\* MAX_BATCH_BYTES environment variable) and 10**4 URIs.
MAX_BATCH_BYTES == 3
MAX_SOURCE_URIS_PER_LOAD == 1
MaxHandled == 2    \* success markers handled one after the other
MaxMiddle == 5     \* path segments between the table and the basename

\* Batch names, as the digit strings that follow "batch" in the object key.
\* The object store lists keys in lexicographic order of their characters,
\* which for "10" and "2" differs from the numeric order.
BatchNames == << <<2>>, <<1, 0>>, <<1>>, <<0, 3>> >>
Batches == {BatchNames[k] : k \in 1..NBatch}

\* Python / object-store string order on the names.
RECURSIVE LexLess(_, _)
LexLess(a, b) ==
    IF b = <<>> THEN FALSE
    ELSE IF a = <<>> THEN TRUE
    ELSE IF Head(a) # Head(b) THEN Head(a) < Head(b)
    ELSE LexLess(Tail(a), Tail(b))

LexLeq(a, b) == a = b \/ LexLess(a, b)

NoItem == <<>>     \* Python None for "no blob"
NoGen == 0 - 1     \* Python None for blob.generation
Absent == 0        \* generation of an object that does not exist
Manual == 0 - 2    \* a lock payload that does not start with JOB_PREFIX

VARIABLES
    ordered,      \* enforce_ordering (main.py:73-76)
    empty,        \* batches whose prefix holds no (non-empty) data file
    gate,         \* START_BACKFILL_FILENAME: "unset", or configured with the
                  \* object absent ("closed"), uploaded and its notification
                  \* pending ("opening"), or present ("open")
    marker,       \* marker[b]: time_created of b's _SUCCESS object, 0 = none
    claims,       \* claim objects, <<blob, created timestamp>>
    backlog,      \* batches with an object under <table prefix>/_backlog/
    backfill,     \* generation of <table prefix>/_BACKFILL, 0 = absent
    bfWrites,     \* generations of _BACKFILL written so far
    notif,        \* _BACKFILL notifications not yet delivered a first time
    lock,         \* _bqlock: Absent, Manual, or the job id it holds
    jobs,         \* jobs[j]: [item, st], st in new/running/done/failed
    dispatched,   \* history: items in the order their jobs were submitted
    lastJob,      \* history: id of the job submitted last, 0 = none
    removed,      \* history: the backlog item deleted last
    pub,          \* pub[b]: position of the publisher invocation for marker b
    delivered,    \* markers whose notification was delivered (ordered path)
    dups,         \* repeated deliveries of _SUCCESS notifications so far
    late,         \* history: a marker was enqueued after a subscriber started
    sub,          \* sub[i]: subscriber invocation i
    uno,          \* uno[u]: invocation u of the unordered path
    actionFilenames, \* the process's constants.ACTION_FILENAMES set object
    notes,        \* history: notifications the process got at the entry of
                  \* main, [name, outcome]
    bucket,       \* bucket[n]: size of the object named n at and below the
                  \* marker's prefix, NoObject when there is none
    result,       \* what get_batches_for_prefix returned or raised
    loads,        \* load jobs load_batches has inserted, [job_id, uris]
    raised,       \* the exception that ended apply, "none" when none did
    merged,       \* the last call of recursive_update: its arguments, what
                  \* it returned and the original argument after the call
    algebra,      \* three configs and their merges in both groupings
    configs,      \* configs[dir]: the objects load.json and ORDERME under
                  \* dir/_config/
    orderAllJobs, \* the setting ORDER_ALL_JOBS
    handled,      \* history: the success markers handled, each with the
                  \* ordering decision, the load-job configuration and the
                  \* destination table after its load job
    table,        \* the rows of the destination table, by batch
    notification, \* the trigger payload handed to main
    parsed,       \* the outcome of parse_notification on it
    dest,         \* the outcome of gcs_path_to_table_ref_and_batch
    defaultJobLabels  \* the module-level dict constants.DEFAULT_JOB_LABELS
                  \* of the process

storeVars == <<marker, claims, backlog, backfill, bfWrites, notif, lock>>
bqVars == <<jobs, dispatched, lastJob>>
pubVars == <<pub, delivered, dups, late>>
mainVars == <<actionFilenames, notes>>
batchVars == <<bucket, result, loads, raised>>
cfgVars == <<configs, orderAllJobs, handled, table>>
trigVars == <<notification, parsed, dest, defaultJobLabels>>
libVars == <<merged, algebra, cfgVars, trigVars>>
confVars == <<ordered, empty, gate, mainVars, batchVars, libVars>>
coordVars == <<storeVars, bqVars, removed, pubVars, sub, uno>>
vars == <<ordered, empty, gate, marker, claims, backlog, backfill, bfWrites, notif, lock,
          jobs, dispatched, lastJob, removed, pub, delivered, dups, late,
          sub, uno, actionFilenames, notes, bucket, result, loads,
          raised, merged, algebra, configs, orderAllJobs, handled, table,
          notification, parsed, dest, defaultJobLabels>>

\* ------------------------------------------------------- object store
\* upload_from_string(..., if_generation_match=0): succeeds iff no object.
CreateIfAbsentBuggy(objects, key) == TRUE
CreateIfAbsent(objects, key) == key \notin objects

\* list_blobs(prefix=".../_backlog/") and "return first item in iterator".
FirstListedLast(items) ==
    IF items = {} THEN NoItem
    ELSE CHOOSE x \in items : \A y \in items : LexLeq(y, x)
FirstListed(items) ==
    IF items = {} THEN NoItem
    ELSE CHOOSE x \in items : \A y \in items : LexLeq(x, y)

get_next_backlog_item == FirstListed(backlog)

\* The claim object's key: the blob's name with its basename replaced by
\* _claimed_<basename>_created_at_<time_created>.
ClaimKeyNoTime(blob, ts) == <<blob, 0>>
ClaimKey(blob, ts) == <<blob, ts>>

BackfillBlob == <<0 - 1>>   \* the _BACKFILL blob, no batch name

\* --------------------------------------------------- action filenames
SUCCESS_FILENAME == "_SUCCESS"
BACKFILL_FILENAME == "_BACKFILL"
None == "None"       \* Python None
\* constants.START_BACKFILL_FILENAME: os.getenv gives None when unset.
START_BACKFILL_FILENAME == IF gate = "unset" THEN None ELSE "_HISTORYDONE"
ACTION_FILENAMES ==
    {SUCCESS_FILENAME, BACKFILL_FILENAME, START_BACKFILL_FILENAME}

\* Basenames of notified objects.
Basenames ==
    {SUCCESS_FILENAME, BACKFILL_FILENAME, "_HISTORYDONE", "data.csv", "_bqlock"}

\* -------------------------------------------------------------- batcher
\* Object names are sequences of path tokens.  PrefixName is the name part
\* of gsurl, the marker's URL with the suffix _SUCCESS removed, so it ends
\* with the delimiter.
PrefixName == <<"batch", "/">>
RootEntry == PrefixName
MarkerName == PrefixName \o <<SUCCESS_FILENAME>>
ConfigName == PrefixName \o <<"_config", "/", "load.json">>
DataNames == {PrefixName \o <<f>> : f \in {"a", "b", "c"}}
ObjectNames == {RootEntry, MarkerName, ConfigName} \cup DataNames

NoObject == 0 - 1
NoResult == [ok |-> FALSE, batches |-> <<>>, why |-> "not called"]

\* Character order of the tokens, for the lexicographic order of listings.
Rank(t) ==
    CASE t = "/" -> 1
      [] t = "_SUCCESS" -> 2
      [] t = "_config" -> 3
      [] t = "a" -> 4
      [] t = "b" -> 5
      [] t = "batch" -> 6
      [] t = "c" -> 7
      [] OTHER -> 8
Ranks(n) == [k \in 1..Len(n) |-> Rank(n[k])]
NameLess(a, b) == LexLess(Ranks(a), Ranks(b))

StartsWith(str, pre) ==
    Len(str) >= Len(pre) /\ SubSeq(str, 1, Len(pre)) = pre

HasToken(str, t) == \E k \in 1..Len(str) : str[k] = t

RECURSIVE Sorted(_)
Sorted(names) ==
    IF names = {} THEN <<>>
    ELSE LET first == CHOOSE x \in names :
                          \A y \in names : x = y \/ NameLess(x, y)
         IN <<first>> \o Sorted(names \ {first})

\* bucket.list_blobs(prefix=prefix, delimiter="/"): the objects whose name
\* starts with the prefix and has no delimiter after it, in lexicographic
\* order, as [name, size].
ListBlobs(objs, prefix) ==
    LET listed == {n \in DOMAIN objs :
                     /\ objs[n] # NoObject
                     /\ StartsWith(n, prefix)
                     /\ ~HasToken(SubSeq(n, Len(prefix) + 1, Len(n)), "/")}
        names == Sorted(listed)
    IN [k \in 1..Len(names) |-> [name |-> names[k], size |-> objs[names[k]]]]

Uri(name) == <<"gs://", "bkt", "/">> \o name

\* The test of utils.py:234-236 on a listed blob.
NameTest(name, prefix_name, ignore_subprefix, ignore_file) ==
    \/ name \notin {prefix_name \o <<"/">>, prefix_name \o <<"/", ignore_file>>}
    \/ StartsWith(name, prefix_name \o <<"/">> \o ignore_subprefix)

\* The loop of utils.py:230-250 and the final batch of utils.py:252-255.
RECURSIVE FillBatches(_, _, _, _)
FillBatches(blobs, batches, batch, cumulative_bytes) ==
    IF blobs = <<>>
    THEN IF Len(batch) > 0 THEN Append(batches, batch) ELSE batches
    ELSE LET blob == Head(blobs)
             cum == cumulative_bytes + blob.size
         IN IF ~NameTest(blob.name, PrefixName, <<"_config", "/">>,
                         SUCCESS_FILENAME)
            THEN FillBatches(Tail(blobs), batches, batch, cumulative_bytes)
            ELSE IF blob.size = 0
            THEN FillBatches(Tail(blobs), batches, batch, cumulative_bytes)
            ELSE IF \/ cum <= MAX_BATCH_BYTES
                    \/ Len(batch) > MAX_SOURCE_URIS_PER_LOAD
            THEN FillBatches(Tail(blobs), batches,
                             Append(batch, Uri(blob.name)), cum)
            ELSE FillBatches(Tail(blobs), Append(batches, batch),
                             <<Uri(blob.name)>>, blob.size)

\* get_batches_for_prefix: NotFound when there is no batch.
get_batches_for_prefix(objs) ==
    LET batches == FillBatches(ListBlobs(objs, PrefixName), <<>>, <<>>, 0)
    IN IF Len(batches) >= 1
       THEN [ok |-> TRUE, batches |-> batches, why |-> "returned"]
       ELSE [ok |-> FALSE, batches |-> <<>>, why |-> "NotFound"]

\* ------------------------------------------------------ recursive_update
\* A JSON value is [kind, val]: a scalar, a list (a sequence) or a dict (a
\* function from its keys to JSON values).  The arguments of
\* recursive_update are dicts.
ScalarVal(x) == [kind |-> "scalar", val |-> x]
ListVal(l) == [kind |-> "list", val |-> l]
DictVal(d) == [kind |-> "dict", val |-> d]
EmptyDict == <<>>
\* out[key] = ... on an object that is no dict (a str, a number, a list
\* indexed by a str).
TypeError == [kind |-> "error", val |-> "TypeError"]

Has(d, key) == key \in DOMAIN d
\* out.get(key, {})
Get(d, key) == IF Has(d, key) THEN d[key] ELSE DictVal(EmptyDict)

\* recursive_update(original, update) with in_place False, as every nested
\* call is made: the value returned, on a copy of original.  The loop body
\* does not run for an empty update, which returns the copy whatever its
\* kind.
RECURSIVE recursive_update(_, _)
ShallowUpdate(original, update) ==
    IF original.kind # "dict" THEN TypeError
    ELSE DictVal([key \in DOMAIN original.val \cup DOMAIN update |->
                    IF Has(update, key) THEN update[key]
                    ELSE original.val[key]])
EarlierWins(original, update) ==
    IF original.kind # "dict" THEN TypeError
    ELSE DictVal([key \in DOMAIN original.val \cup DOMAIN update |->
                    IF Has(original.val, key) THEN original.val[key]
                    ELSE update[key]])
recursive_update(original, update) ==
    IF DOMAIN update = {} THEN original
    ELSE IF original.kind # "dict" THEN TypeError
    ELSE LET out == [key \in DOMAIN original.val \cup DOMAIN update |->
                        IF Has(update, key)
                        THEN IF update[key].kind = "dict"
                             THEN recursive_update(Get(original.val, key),
                                                   update[key].val)
                             ELSE update[key]
                        ELSE original.val[key]]
         IN IF \E key \in DOMAIN out : out[key].kind = "error"
            THEN TypeError
            ELSE DictVal(out)

\* out = original if in_place else copy.deepcopy(original): what the
\* caller's original is after a call that returned r.
KeepsNothing(original, in_place, r) == r
OriginalAfter(original, in_place, r) == IF in_place THEN r ELSE original

\* The values the calls are made on.
Keys == {"a", "b"}
Leaves == {ScalarVal("x"), ScalarVal("y"), ListVal(<<"x", "y">>)}
Dicts(values) == UNION {[D -> values] : D \in SUBSET Keys}
Flat == Dicts(Leaves)
Nested == Dicts(Leaves \cup {DictVal(d) : d \in Flat})
Mixed == Dicts(Leaves \cup {DictVal([k \in {"a"} |-> ScalarVal("x")])})

\* ------------------------------------------------------ config resolver
\* Object ids and directories are sequences of path segments; the bucket
\* root is the empty one.  A file read is [kind, val]: none (NotFound,
\* read_gcs_file_if_exists returns None), text (the content, a str) or json
\* (a content that is the JSON text of the dict val).
MarkerIds == {<<"ds", "tbl", "batchA", "_SUCCESS">>,
              <<"ds", "tbl", "batchB", "_SUCCESS">>}
ConfigDirs == {<<>>, <<"ds">>, <<"ds", "tbl">>, <<"ds", "tbl", "batchA">>}
NoFile == [kind |-> "none", val |-> None]
TextFile(t) == [kind |-> "text", val |-> t]
JsonFile(d) == [kind |-> "json", val |-> d]

BASE_LOAD_JOB_CONFIG ==
    ("sourceFormat" :> ScalarVal("CSV")) @@
    ("fieldDelimiter" :> ScalarVal(",")) @@
    ("writeDisposition" :> ScalarVal("WRITE_APPEND")) @@
    ("labels" :> DictVal(("component" :> ScalarVal("event-based-gcs-ingest"))
                         @@ ("cloud-function-name" :> ScalarVal("fn"))))

\* The load.json and ORDERME contents uploaded.
Truncate == "writeDisposition" :> ScalarVal("WRITE_TRUNCATE")
Other ==
    ("writeDisposition" :> ScalarVal("WRITE_EMPTY")) @@
    ("sourceFormat" :> ScalarVal("AVRO"))
LoadContents == {NoFile, JsonFile(Truncate), JsonFile(Other)}
OrdermeContents == {NoFile, TextFile(""), TextFile("x")}

\* `if config:` on the value read: None and the empty str are false.
NeverTruthy(c) == FALSE
Truthy(c) == c.kind # "none" /\ ~(c.kind = "text" /\ c.val = "")

\* pathlib.Path(path).parent, the root for a single segment.
Parent(path) == SubSeq(path, 1, Len(path) - 1)

\* _get_parent_config_file: the object <parent of path>/_config/<name>.
get_parent_config_file(cfgs, name, path) ==
    IF Parent(path) \in DOMAIN cfgs THEN cfgs[Parent(path)][name] ELSE NoFile

\* look_for_config_in_parents: the loop of utils.py:165-171.
RECURSIVE LookLoop(_, _, _, _)
LookLoop(cfgs, name, parts, config) ==
    IF parts = <<>> THEN config
    ELSE IF Truthy(config) THEN config
    ELSE LookLoop(cfgs, name, Parent(parts),
                  get_parent_config_file(cfgs, name, parts))
look_for_config_in_parents(cfgs, obj_path, name) ==
    LookLoop(cfgs, name, obj_path, NoFile)

\* construct_load_job_config: the queue of utils.py:190-196, the base first
\* and then every load.json found walking up from gsurl ...
RECURSIVE ConfigQ(_, _)
ConfigQ(cfgs, parts) ==
    IF parts = <<>> THEN <<>>
    ELSE LET config == get_parent_config_file(cfgs, "load", parts)
         IN (IF Truthy(config) THEN <<config.val>> ELSE <<>>)
            \o ConfigQ(cfgs, Parent(parts))
\* ... merged in queue order (utils.py:198-200).
RECURSIVE MergeQ(_, _)
MergeQ(merged_config, config_q) ==
    IF config_q = <<>> \/ merged_config.kind = "error" THEN merged_config
    ELSE MergeQ(recursive_update(merged_config, Head(config_q)),
                Tail(config_q))
construct_load_job_config(cfgs, prefix) ==
    MergeQ(DictVal(EmptyDict),
           <<BASE_LOAD_JOB_CONFIG>> \o ConfigQ(cfgs, prefix)).val

\* The destination table after a load job of the rows of batch b.
Loaded(rows, disposition, b) ==
    IF disposition = "WRITE_TRUNCATE" THEN <<b>>
    ELSE IF disposition = "WRITE_APPEND" THEN Append(rows, b)
    ELSE IF rows = <<>> THEN <<b>> ELSE rows

\* ----------------------------------------------------- destination regex
\* An object id is a sequence of characters.  A capture group is
\* [kind, val]: none (the group took no part in the match, None in
\* groupdict) or str (the characters captured).
NoGroup == [kind |-> "none", val |-> <<>>]
Group(chars) == [kind |-> "str", val |-> chars]
Digits == {"0", "1", "2", "3", "4", "5", "6", "7", "8", "9"}
Letters == {"d", "s", "t", "b", "l", "S", "U", "C", "E"}
WordChars == Letters \cup Digits \cup {"_"}        \* \w
DatasetChars == WordChars \cup {"-", "."}          \* [\w\-\._0-9]
TableChars == WordChars \cup {"-"}                 \* [\w\-_0-9]
At(s, p, class) == p <= Len(s) /\ s[p] \in class
\* The length of the longest run of characters of class from position p.
RECURSIVE Run(_, _, _)
Run(s, p, class) == IF At(s, p, class) THEN 1 + Run(s, p + 1, class) ELSE 0

NoMatch == [ok |-> FALSE]
NoCaptures ==
    [ok |-> TRUE, dataset |-> NoGroup, table |-> NoGroup,
     partition |-> NoGroup, yyyy |-> NoGroup, mm |-> NoGroup, dd |-> NoGroup,
     hh |-> NoGroup, batch |-> NoGroup]

\* The pattern of constants.py:72-83, piece by piece: Match gives the
\* captures of the first way to match s from position p on, trying the
\* alternatives of every piece in the order of the backtracking matcher
\* (greedy: the longest first, a present optional before an absent one).
\* slash: an optional "/" stands before the piece; n: the length to try for
\* a piece of variable length, Unknown before the first try.
Unknown == 0 - 1
FollowingPiece(piece) ==
    CASE piece = "mm" -> "dd"
      [] piece = "dd" -> "hh"
      [] OTHER -> "batch"
RECURSIVE Match(_, _, _, _, _, _)
Match(piece, slash, s, p, c, n) ==
    IF slash
    THEN \* /?
         IF At(s, p, {"/"})
         THEN LET r == Match(piece, FALSE, s, p + 1, c, n)
              IN IF r.ok THEN r ELSE Match(piece, FALSE, s, p, c, n)
         ELSE Match(piece, FALSE, s, p, c, n)
    ELSE IF piece = "dataset"
    THEN \* ^(?P<dataset>[\w\-\._0-9]+)/
         LET m == IF n = Unknown THEN Run(s, p, DatasetChars) ELSE n
             r == IF At(s, p + m, {"/"})
                  THEN Match("table", FALSE, s, p + m + 1,
                             [c EXCEPT !.dataset = Group(SubSeq(s, p, p + m - 1))],
                             Unknown)
                  ELSE NoMatch
         IN IF m = 0 THEN NoMatch
            ELSE IF r.ok THEN r ELSE Match(piece, FALSE, s, p, c, m - 1)
    ELSE IF piece = "table"
    THEN \* (?P<table>[\w\-_0-9]+)/?
         LET m == IF n = Unknown THEN Run(s, p, TableChars) ELSE n
             r == Match("partition", TRUE, s, p + m,
                        [c EXCEPT !.table = Group(SubSeq(s, p, p + m - 1))],
                        Unknown)
         IN IF m = 0 THEN NoMatch
            ELSE IF r.ok THEN r ELSE Match(piece, FALSE, s, p, c, m - 1)
    ELSE IF piece = "partition"
    THEN \* (?P<partition>\$[0-9]+)?/?
         LET m == IF n # Unknown THEN n
                  ELSE IF At(s, p, {"$"}) THEN Run(s, p + 1, Digits) ELSE 0
             r == Match("yyyy", TRUE, s, p + 1 + m,
                        [c EXCEPT !.partition = Group(SubSeq(s, p, p + m))],
                        Unknown)
         IN IF m = 0 THEN Match("yyyy", TRUE, s, p, c, Unknown)
            ELSE IF r.ok THEN r ELSE Match(piece, FALSE, s, p, c, m - 1)
    ELSE IF piece = "yyyy"
    THEN \* (?: (?P<yyyy>[0-9]{4})/? ... )?
         LET r == Match("mm", TRUE, s, p + 4,
                        [c EXCEPT !.yyyy = Group(SubSeq(s, p, p + 3))],
                        Unknown)
         IN IF Run(s, p, Digits) >= 4 /\ r.ok THEN r
            ELSE Match("batch", FALSE, s, p, c, Unknown)
    ELSE IF piece \in {"mm", "dd", "hh"}
    THEN \* (?P<mm>[0-9]{2})?/?  (?P<dd>[0-9]{2})?/?  (?P<hh>[0-9]{2})?/?
         LET r == Match(FollowingPiece(piece), TRUE, s, p + 2,
                        [c EXCEPT ![piece] = Group(SubSeq(s, p, p + 1))],
                        Unknown)
         IN IF Run(s, p, Digits) >= 2 /\ r.ok THEN r
            ELSE Match(FollowingPiece(piece), TRUE, s, p, c, Unknown)
    ELSE \* (?P<batch>[\w\-_0-9]+)?/
         LET m == IF n = Unknown THEN Run(s, p, TableChars) ELSE n
             d == IF m = 0 THEN c
                  ELSE [c EXCEPT !.batch = Group(SubSeq(s, p, p + m - 1))]
         IN IF At(s, p + m, {"/"}) THEN d
            ELSE IF m = 0 THEN NoMatch
            ELSE Match(piece, FALSE, s, p, c, m - 1)
DESTINATION_REGEX_match(object_id) ==
    Match("dataset", FALSE, object_id, 1, NoCaptures, Unknown)

\* ''.join(part_list): a TypeError when an item is None.
RECURSIVE Join(_)
Join(part_list) ==
    IF part_list = <<>> THEN Group(<<>>)
    ELSE LET rest == Join(Tail(part_list))
         IN IF Head(part_list).kind = "none" \/ rest.kind = "error"
            THEN [kind |-> "error", val |-> <<>>]
            ELSE Group(Head(part_list).val \o rest.val)
\* Truth of a str or None: a non-empty str.
NonEmpty(g) == g.kind = "str" /\ g.val # <<>>
\* `not partition and any(part_list)`.
ComposeDate(partition, part_list) ==
    ~NonEmpty(partition) /\ \E i \in 1..Len(part_list) : NonEmpty(part_list[i])

\* gcs_path_to_table_ref_and_batch: the outcome, raised = "none" with the
\* destination's parts, or the exception raised.
gcs_path_to_table_ref_and_batch(object_id) ==
    LET destination_details == DESTINATION_REGEX_match(object_id)
        part_list == <<destination_details.yyyy, destination_details.mm,
                       destination_details.dd, destination_details.hh>>
        joined == Join(part_list)
    IN IF ~destination_details.ok
       THEN [fn |-> "table_ref", raised |-> "RuntimeError"]
       ELSE IF ComposeDate(destination_details.partition, part_list)
       THEN IF joined.kind = "error"
            THEN [fn |-> "table_ref", raised |-> "TypeError"]
            ELSE [fn |-> "table_ref", raised |-> "none",
                  dataset |-> destination_details.dataset.val,
                  table |-> destination_details.table.val,
                  partition |-> Group(<<"$">> \o joined.val),
                  batch_id |-> destination_details.batch]
       ELSE [fn |-> "table_ref", raised |-> "none",
             dataset |-> destination_details.dataset.val,
             table |-> destination_details.table.val,
             partition |-> destination_details.partition,
             batch_id |-> destination_details.batch]

\* constants.DEFAULT_JOB_LABELS as the module is loaded.
DEFAULT_JOB_LABELS ==
    ("component" :> "event-based-gcs-ingest") @@ ("cloud-function-name" :> "fn")

\* Python's d[key] = value on a dict.
SetItem(d, key, value) ==
    [k \in DOMAIN d \cup {key} |-> IF k = key THEN value ELSE d[k]]

\* utils.py:596-599: labels is the dict DEFAULT_JOB_LABELS itself, and
\* labels["batch-id"] = batch_id is done when batch_id is truthy.  ref is
\* what the call returned; a call that raised did so before these lines.
LabelsAfter(labels, ref) ==
    IF ref.raised = "none" /\ NonEmpty(ref.batch_id)
    THEN SetItem(labels, "batch-id", ref.batch_id.val)
    ELSE labels

\* -------------------------------------------------------- notification
\* A notification is a dict: a function on the keys it has.
NotificationKeys == {"kind", "bucket", "name", "attributes"}
AttributeKeys == {"bucketId", "objectId"}
Restrict(f, keys) == [k \in keys |-> f[k]]
NoNotification == Restrict(<<>>, {})

\* parse_notification: the pair returned, or the exception raised.
Returned(bucket_id, object_id) ==
    [fn |-> "parse", raised |-> "none", bucket_id |-> bucket_id,
     object_id |-> object_id]
Raised(fn, exception) == [fn |-> fn, raised |-> exception]
parse_notification(n) ==
    IF "kind" \in DOMAIN n /\ n["kind"] = "storage#object"
    THEN IF {"bucket", "name"} \subseteq DOMAIN n
         THEN Returned(n["bucket"], n["name"])
         ELSE Raised("parse", "KeyError")
    ELSE IF "attributes" \in DOMAIN n /\ DOMAIN n["attributes"] # {}
    THEN IF AttributeKeys \subseteq DOMAIN n["attributes"]
         THEN Returned(n["attributes"]["bucketId"],
                       n["attributes"]["objectId"])
         ELSE Raised("parse", "UnexpectedTriggerException")
    ELSE Raised("parse", "UnexpectedTriggerException")

\* The payloads delivered: every choice of present keys around one object.
Slash == <<"/">>
Tokens == {<<"$", "2", "0", "2", "0">>, <<"2", "0", "2", "0">>, <<"0", "1">>,
           <<"b", "1">>}
RECURSIVE Middles(_)
Middles(n) ==
    IF n = 0 THEN {<<>>}
    ELSE Middles(n - 1)
         \cup {m \o t \o Slash : m \in Middles(n - 1), t \in Tokens}
ObjectIds ==
    {<<"d", "s", "/", "t", "b", "l", "/">> \o m
        \o <<"_", "S", "U", "C", "C", "E", "S", "S">> : m \in Middles(MaxMiddle)}
FullNotification(kind, object_id, attributes) ==
    [k \in NotificationKeys |->
        CASE k = "kind" -> kind
          [] k = "bucket" -> "bkt"
          [] k = "name" -> object_id
          [] OTHER -> attributes]
FullAttributes(object_id) ==
    [k \in AttributeKeys |-> IF k = "bucketId" THEN "bkt" ELSE object_id]
Notifications(object_id) ==
    {Restrict(FullNotification(kind, object_id,
                               Restrict(FullAttributes(object_id), aks)), ks) :
        kind \in {"storage#object", "other"}, ks \in SUBSET NotificationKeys,
        aks \in SUBSET AttributeKeys}

\* ------------------------------------------------------------- initial
IdleSub == [pc |-> "idle", gen |-> NoGen, lgen |-> NoGen, item |-> NoItem,
            job |-> 0, ran |-> FALSE, ticks |-> 0, slept |-> FALSE,
            seen |-> Absent, cached |-> Absent]
IdleUno == [pc |-> "idle", b |-> NoItem, ts |-> 0, job |-> 0]

\* The producer has uploaded every batch's data files (none for the batches
\* of empty) and its _SUCCESS marker; no notification has been handled yet.
InitStore ==
    /\ empty \in {{}, {BatchNames[NBatch]}}
    /\ marker = [b \in Batches |-> 1]
    /\ claims = {}
    /\ backlog = {}
    /\ backfill = Absent
    /\ bfWrites = 0
    /\ notif = 0
    /\ lock = Absent
    /\ jobs = <<>>
    /\ dispatched = <<>>
    /\ lastJob = 0
    /\ removed = NoItem
    /\ pub = [b \in Batches |-> "idle"]
    /\ delivered = {}
    /\ dups = 0
    /\ late = FALSE
    /\ sub = [i \in 1..NSub |-> IdleSub]
    /\ uno = [u \in 1..NUno |-> IdleUno]
    /\ actionFilenames = ACTION_FILENAMES
    /\ notes = <<>>
    /\ result = NoResult
    /\ loads = <<>>
    /\ raised = "none"

\* No library call has been made.
NoCall == [fn |-> "none"]
\* No payload: the state of the specifications that handle no trigger.
InitNoTrigger ==
    /\ notification = NoNotification
    /\ parsed = NoCall
    /\ dest = NoCall
    /\ defaultJobLabels = DEFAULT_JOB_LABELS

InitLib ==
    /\ merged = NoCall
    /\ algebra = NoCall
    /\ configs = [d \in ConfigDirs |-> [load |-> NoFile, orderme |-> NoFile]]
    /\ orderAllJobs = FALSE
    /\ handled = <<>>
    /\ table = <<>>
    /\ InitNoTrigger

\* Ordering is enforced for the table (ORDER_ALL_JOBS, or an ORDERME config).
NoObjects == [n \in ObjectNames |-> NoObject]

Init ==
    /\ ordered = TRUE
    /\ gate = "unset"
    /\ bucket = NoObjects
    /\ InitStore
    /\ InitLib

\* Ordering is enforced and START_BACKFILL_FILENAME is configured; the file
\* has not been uploaded yet.
InitGate ==
    /\ ordered = TRUE
    /\ gate = "closed"
    /\ bucket = NoObjects
    /\ InitStore
    /\ InitLib

\* Ordering is not enforced.
InitUnordered ==
    /\ ordered = FALSE
    /\ gate = "unset"
    /\ bucket = NoObjects
    /\ InitStore
    /\ InitLib

\* ------------------------------------------------------------ producer
\* The producer uploads b's _SUCCESS marker again: a new object generation
\* with a new time_created.  In ordered mode nothing reads a success
\* marker's time_created, so there a re-upload is one more notification,
\* which MaxDup already counts.
Reupload(b) ==
    /\ ~ordered
    /\ marker[b] < MaxTs
    /\ marker' = [marker EXCEPT ![b] = @ + 1]
    /\ UNCHANGED <<confVars, claims, backlog, backfill, bfWrites, notif, lock,
                   bqVars, removed, pubVars, sub, uno>>

\* A success marker is deleted from the bucket while ordering is enforced
\* (nothing in ordered mode writes or reads a marker's time_created).
DeleteMarker(b) ==
    /\ ordered
    /\ marker[b] # Absent
    /\ Cardinality({d \in Batches : marker[d] = Absent}) < MaxDeleted
    /\ marker' = [marker EXCEPT ![b] = Absent]
    /\ UNCHANGED <<confVars, claims, backlog, backfill, bfWrites, notif, lock,
                   bqVars, removed, pubVars, sub, uno>>

\* ----------------------------------------------------------- warehouse
JobSucceeds(j) ==
    /\ j \in 1..Len(jobs)
    /\ jobs[j].st = "running"
    /\ jobs' = [jobs EXCEPT ![j].st = "done"]
    /\ UNCHANGED <<confVars, storeVars, dispatched, lastJob, removed, pubVars,
                   sub, uno>>

JobFails(j) ==
    /\ j \in 1..Len(jobs)
    /\ jobs[j].st = "running"
    /\ jobs' = [jobs EXCEPT ![j].st = "failed"]
    /\ UNCHANGED <<confVars, storeVars, dispatched, lastJob, removed, pubVars,
                   sub, uno>>

\* ------------------------------------------------------- manual hold
\* An operator places a manual lock (a payload without the job prefix) on
\* a table whose lock is free, and releases it.
HumanLocks ==
    /\ ordered
    /\ lock = Absent
    /\ lock' = Manual
    /\ UNCHANGED <<confVars, marker, claims, backlog, backfill, bfWrites, notif,
                   bqVars, removed, pubVars, sub, uno>>

HumanUnlocks ==
    /\ lock = Manual
    /\ lock' = Absent
    /\ UNCHANGED <<confVars, marker, claims, backlog, backfill, bfWrites, notif,
                   bqVars, removed, pubVars, sub, uno>>

\* ------------------------------------------------------ unordered path
\* main: a _SUCCESS notification with ordering off.  The invocation starts
\* and handle_duplicate_notification reloads the blob (its time_created).
UnoStart(u, b) ==
    /\ ~ordered
    /\ uno[u].pc = "idle"
    /\ uno' = [uno EXCEPT ![u] = [pc |-> "claim", b |-> b, ts |-> marker[b],
                                  job |-> 0]]
    /\ UNCHANGED <<confVars, storeVars, bqVars, removed, pubVars, sub>>

\* handle_duplicate_notification: the conditional create of the claim blob.
UnoClaim(u) ==
    /\ uno[u].pc = "claim"
    /\ LET key == ClaimKey(uno[u].b, uno[u].ts) IN
       IF CreateIfAbsent(claims, key)
       THEN /\ claims' = claims \cup {key}
            /\ uno' = [uno EXCEPT ![u].pc = "apply"]
       ELSE /\ claims' = claims
            /\ uno' = [uno EXCEPT ![u].pc = "dup"]
    /\ UNCHANGED <<confVars, marker, backlog, backfill, bfWrites, notif, lock,
                   bqVars, removed, pubVars, sub>>

\* apply with lock_blob None: get_batches_for_prefix raises NotFound when
\* the prefix holds no data file; otherwise the load (or query) job is
\* submitted.
UnoApply(u) ==
    /\ uno[u].pc = "apply"
    /\ IF uno[u].b \in empty
       THEN /\ uno' = [uno EXCEPT ![u].pc = "err"]
            /\ UNCHANGED bqVars
       ELSE /\ Len(jobs) < MaxJobs
            /\ jobs' = Append(jobs, [item |-> uno[u].b, st |-> "running"])
            /\ dispatched' = Append(dispatched, uno[u].b)
            /\ lastJob' = Len(jobs) + 1
            /\ uno' = [uno EXCEPT ![u].pc = "watch", ![u].job = Len(jobs) + 1]
    /\ UNCHANGED <<confVars, storeVars, removed, pubVars, sub>>

\* The fail-fast watch of load_batches / external_query.
UnoWatch(u) ==
    /\ uno[u].pc = "watch"
    /\ uno' = [uno EXCEPT ![u].pc =
                  IF jobs[uno[u].job].st = "failed" THEN "err" ELSE "done"]
    /\ UNCHANGED <<confVars, storeVars, bqVars, removed, pubVars, sub>>

\* ----------------------------------------------------------- publisher
\* main: a _SUCCESS notification with ordering on; backlog_publisher
\* uploads the backlog object (no precondition).
PubEnqueue(b) ==
    /\ ordered
    /\ pub[b] = "idle"
    /\ IF b \in delivered
       THEN dups < MaxDup /\ dups' = dups + 1 /\ delivered' = delivered
       ELSE dups' = dups /\ delivered' = delivered \cup {b}
    /\ backlog' = backlog \cup {b}
    /\ late' = (late \/ claims # {})
    /\ pub' = [pub EXCEPT ![b] = "start"]
    /\ UNCHANGED <<confVars, marker, claims, backfill, bfWrites, notif, lock,
                   bqVars, removed, sub, uno>>

\* start_backfill_subscriber_if_not_running: start_backfill is True when
\* START_BACKFILL_FILENAME is unset, otherwise it is whether that object
\* exists at the table prefix.
StartBackfillAlways(g) == TRUE
StartBackfill(g) == g # "closed"

\* ... and then _BACKFILL is created if it does not exist (conditional
\* create; PreconditionFailed is swallowed).
CreateBackfillIfNotExists ==
    IF StartBackfill(gate) /\ backfill = Absent
    THEN /\ bfWrites < MaxGen
         /\ backfill' = bfWrites + 1
         /\ bfWrites' = bfWrites + 1
         /\ notif' = notif + 1
    ELSE UNCHANGED <<backfill, bfWrites, notif>>

\* backlog_publisher calls it and returns.
PubStartBackfill(b) ==
    /\ pub[b] = "start"
    /\ CreateBackfillIfNotExists
    /\ pub' = [pub EXCEPT ![b] = "idle"]
    /\ UNCHANGED <<confVars, marker, claims, backlog, lock, bqVars, removed,
                   delivered, dups, late, sub, uno>>

\* The operator uploads the START_BACKFILL file at the table prefix.
StartFileUploaded ==
    /\ gate = "closed"
    /\ gate' = "opening"
    /\ UNCHANGED <<ordered, empty, mainVars, batchVars, libVars, coordVars>>

\* main: the notification of the START_BACKFILL file with ordering on calls
\* start_backfill_subscriber_if_not_running and returns.
MainStartBackfill ==
    /\ ordered
    /\ gate = "opening"
    /\ CreateBackfillIfNotExists
    /\ gate' = "open"
    /\ UNCHANGED <<ordered, empty, mainVars, batchVars, libVars, marker, claims, backlog,
                   lock, bqVars, removed, pubVars, sub, uno>>

\* ---------------------------------------------------------- subscriber
\* sub[i]: pc, the position in backlog_subscriber; gen, the generation of
\* the notified _BACKFILL blob; lgen, lock_blob.generation of the invocation's
\* blob object; item, next_backlog_file; job, the job id polled or created;
\* ran, an iteration was completed; ticks, polling periods spent; slept, the
\* current iteration spent one; seen, the lock content last read or written;
\* cached, the lock content in the TTL cache of read_gcs_file (utils.py:313)
\* of the function instance, Absent when it holds none: the cache is the
\* instance's, so it outlives the invocation, and its entry is a second old
\* at most, so no entry outlives a polling period.
Running(i) == sub[i].pc \notin {"idle", "err"}
InLoop(i) == sub[i].pc \notin {"idle", "err", "claim"}
FreeSlot(i) == sub[i].pc = "idle" /\ \A k \in 1..(i - 1) : sub[k].pc # "idle"
Ends(i) == [sub EXCEPT ![i] = [IdleSub EXCEPT !.cached = sub[i].cached]]
Raises(i) == [sub EXCEPT ![i] = [IdleSub EXCEPT !.pc = "err"]]
\* BigQueryJobFailure for job j; the ended invocation keeps the id.
RaisesJobFailure(i, j) == [sub EXCEPT ![i] = [IdleSub EXCEPT !.pc = "err", !.job = j]]

\* main: a _BACKFILL notification with ordering on starts backlog_subscriber;
\* handle_duplicate_notification reloads the blob, which gives the live
\* generation and its time_created (NotFound ends the invocation).  The
\* notification is the first one of a write of _BACKFILL (dup = FALSE) or a
\* repeated delivery of an earlier one (dup = TRUE).
SubStart(i, dup) ==
    /\ ordered
    /\ FreeSlot(i)
    /\ IF dup THEN bfWrites > 0 /\ notif' = notif
              ELSE notif > 0 /\ notif' = notif - 1
    /\ IF backfill = Absent
       THEN ~dup /\ sub' = sub
       ELSE sub' = [sub EXCEPT ![i].pc = "claim", ![i].gen = backfill]
    /\ UNCHANGED <<confVars, marker, claims, backlog, backfill, bfWrites, lock,
                   bqVars, removed, pubVars, uno>>

\* handle_duplicate_notification: the conditional create of the claim blob
\* of _BACKFILL; DuplicateNotification ends the invocation.
SubClaim(i) ==
    /\ sub[i].pc = "claim"
    /\ LET key == ClaimKey(BackfillBlob, sub[i].gen) IN
       IF CreateIfAbsent(claims, key)
       THEN /\ claims' = claims \cup {key}
            /\ sub' = [sub EXCEPT ![i].pc = "loop"]
       ELSE /\ claims' = claims
            /\ sub' = Ends(i)
    /\ UNCHANGED <<confVars, marker, backlog, backfill, bfWrites, notif, lock,
                   bqVars, removed, pubVars, uno>>

\* A sleep or poll of the loop body: one polling period of the invocation's
\* time is spent (time.sleep(polling_timeout), a poll of wait_on_bq_job_id
\* that ran to its end, the fail-fast watch of WAIT_FOR_JOB_SECONDS, a
\* list-to-delete delay above ENSURE_SUBSCRIBER_SECONDS).
SleptNot(s) == s
Slept(s) == [s EXCEPT !.ticks = IF @ < MaxTicks THEN @ + 1 ELSE @,
                      !.slept = TRUE, !.cached = Absent]

\* The while test fails (restart deadline reached): the restart handoff
\* uploads _BACKFILL again, with no precondition, and the function returns.
\* The first test of an invocation passes (ordering.py:68 raises otherwise).
\* Calls take time of their own, so the test may fail after any iteration;
\* it does fail once MaxTicks polling periods are spent (SubReadLock).
SubHandoff(i) ==
    /\ sub[i].pc = "loop"
    /\ sub[i].ran
    /\ bfWrites < MaxGen
    /\ backfill' = bfWrites + 1
    /\ bfWrites' = bfWrites + 1
    /\ notif' = notif + 1
    /\ sub' = Ends(i)
    /\ UNCHANGED <<confVars, marker, claims, backlog, lock, bqVars, removed,
                   pubVars, uno>>

\* read_gcs_file_if_exists on the lock: the entry of the TTL cache when it
\* holds one that has not expired (hit), else the content in the store,
\* which is then cached; NotFound is raised, not cached, and gives None.
ReadLive(entry, content, hit) == content
ReadCached(entry, content, hit) ==
    IF hit /\ entry # Absent THEN entry ELSE content

\* The while test passes and the lock is read: no lock (or an empty one),
\* a manual lock (sleep, continue), or a job id to poll.
SubReadLock(i, hit) ==
    /\ sub[i].pc = "loop"
    /\ sub[i].ticks < MaxTicks
    /\ hit => sub[i].cached # Absent
    /\ LET lock_contents == ReadCached(sub[i].cached, lock, hit) IN
       sub' = [sub EXCEPT ![i] =
          IF lock_contents = Absent
          THEN [@ EXCEPT !.pc = "list", !.slept = FALSE, !.seen = Absent,
                         !.cached = Absent]
          ELSE IF lock_contents = Manual
          THEN Slept([@ EXCEPT !.ran = TRUE, !.seen = lock_contents])
          ELSE [@ EXCEPT !.pc = "wait", !.job = lock_contents,
                         !.slept = FALSE, !.seen = lock_contents,
                         !.cached = lock_contents]]
    /\ UNCHANGED <<confVars, storeVars, bqVars, removed, pubVars, uno>>

\* wait_on_bq_job_id for polling_timeout seconds: True when the job is DONE
\* without errors, False when it is still PENDING or RUNNING at the end of
\* the poll; a failed or unknown job raises BigQueryJobFailure.
WaitResultStrict(st) ==
    IF st = "done" THEN "done" ELSE "raise"
WaitResult(st) ==
    IF st = "done" THEN "done"
    ELSE IF st = "running" THEN "timeout"
    ELSE "raise"

\* What the subscriber does after a poll that ended with the job still
\* running: last_job_done is False, nothing is removed, and control goes on
\* to the listing of the backlog (ordering.py:109-115).
AfterPollTimeoutRepoll == "loop"
AfterPollTimeout == "list"

SubWait(i) ==
    /\ sub[i].pc = "wait"
    /\ LET r == WaitResult(jobs[sub[i].job].st) IN
       sub' = IF r = "raise" THEN RaisesJobFailure(i, sub[i].job)
              ELSE IF r = "done"
              THEN [sub EXCEPT ![i].job = 0, ![i].ran = TRUE, ![i].pc = "rmlist"]
              ELSE [sub EXCEPT ![i] = Slept([@ EXCEPT !.job = 0, !.ran = TRUE,
                                                      !.pc = AfterPollTimeout])]
    /\ UNCHANGED <<confVars, storeVars, bqVars, removed, pubVars, uno>>

\* remove_oldest_backlog_item: the listing ...
SubRemoveList(i) ==
    /\ sub[i].pc = "rmlist"
    /\ LET first == FirstListed(backlog) IN
       sub' = [sub EXCEPT ![i].item = first,
                          ![i].pc = IF first = NoItem THEN "list" ELSE "rmdel"]
    /\ UNCHANGED <<confVars, storeVars, bqVars, removed, pubVars, uno>>

\* ... and the delete of the first blob listed (NotFound when it is gone).
SubRemoveDelete(i) ==
    /\ sub[i].pc = "rmdel"
    /\ IF sub[i].item \in backlog
       THEN /\ backlog' = backlog \ {sub[i].item}
            /\ removed' = sub[i].item
            /\ sub' = [sub EXCEPT ![i].item = NoItem, ![i].pc = "list"]
       ELSE /\ UNCHANGED <<backlog, removed>>
            /\ sub' = Raises(i)
    /\ UNCHANGED <<confVars, marker, claims, backfill, bfWrites, notif, lock,
                   bqVars, pubVars, uno>>

\* next_success_file.exists() (ordering.py:145): the success marker that
\* the backlog item stands for is in the bucket.
ExistsAlways(markers, item) == TRUE
Exists(markers, item) == markers[item] # Absent

\* get_next_backlog_item, and BacklogException when the success marker of
\* the item listed does not exist.
SubList(i) ==
    /\ sub[i].pc = "list"
    /\ LET first == get_next_backlog_item IN
       sub' = IF first = NoItem
              THEN [sub EXCEPT ![i].item = first, ![i].pc = "delbf"]
              ELSE IF Exists(marker, first)
              THEN [sub EXCEPT ![i].item = first, ![i].pc = "lockchk"]
              ELSE Raises(i)
    /\ UNCHANGED <<confVars, storeVars, bqVars, removed, pubVars, uno>>

\* Empty backlog: backfill_blob.delete(if_generation_match=generation), then
\* the test whether more than ENSURE_SUBSCRIBER_SECONDS passed since the
\* listing (elapsed = TRUE: list again).
SubDeleteBackfill(i, elapsed) ==
    /\ sub[i].pc = "delbf"
    /\ IF backfill = sub[i].gen
       THEN /\ backfill' = Absent
            /\ sub' = [sub EXCEPT ![i] = IF elapsed
                                          THEN Slept([@ EXCEPT !.pc = "relist"])
                                          ELSE [@ EXCEPT !.pc = "unlock"]]
       ELSE /\ ~elapsed
            /\ backfill' = backfill
            /\ sub' = Raises(i)
    /\ UNCHANGED <<confVars, marker, claims, backlog, bfWrites, notif, lock,
                   bqVars, removed, pubVars, uno>>

\* The second listing: continue the loop when an item appeared.
SubRelist(i) ==
    /\ sub[i].pc = "relist"
    /\ sub' = [sub EXCEPT ![i].ran = TRUE,
                          ![i].pc = IF get_next_backlog_item = NoItem
                                    THEN "unlock" ELSE "loop"]
    /\ UNCHANGED <<confVars, storeVars, bqVars, removed, pubVars, uno>>

\* A conditional write or delete of the lock with
\* if_generation_match=lock_blob.generation.  The generation the blob object
\* holds is that of this invocation's last upload, None before the first;
\* None sends no precondition.
GenerationMatches(seen) == seen = NoGen \/ lock = seen

\* handle_bq_lock(None): delete the lock, and the subscriber returns.
SubUnlock(i) ==
    /\ sub[i].pc = "unlock"
    /\ IF lock # Absent /\ GenerationMatches(sub[i].lgen)
       THEN lock' = Absent /\ sub' = Ends(i)
       ELSE lock' = lock /\ sub' = Raises(i)
    /\ UNCHANGED <<confVars, marker, claims, backlog, backfill, bfWrites, notif,
                   bqVars, removed, pubVars, uno>>

\* handle_bq_lock(job_id): lock_blob.exists() ...
SubLockExists(i) ==
    /\ sub[i].pc = "lockchk"
    /\ sub' = [sub EXCEPT ![i].pc = IF lock # Absent THEN "lockput"
                                    ELSE "lockcreate"]
    /\ UNCHANGED <<confVars, storeVars, bqVars, removed, pubVars, uno>>

\* ... then the upload of the new job id: generation-matched when the lock
\* existed, if_generation_match=0 when it did not.  PreconditionFailed
\* becomes BacklogException.  The job id is fresh (uuid4).
SubLockWrite(i) ==
    /\ sub[i].pc \in {"lockput", "lockcreate"}
    /\ Len(jobs) < MaxJobs
    /\ LET ok == IF sub[i].pc = "lockput"
                 THEN GenerationMatches(sub[i].lgen)
                 ELSE lock = Absent
           j == Len(jobs) + 1
       IN IF ok
          THEN /\ lock' = j
               /\ jobs' = Append(jobs, [item |-> sub[i].item, st |-> "new"])
               /\ sub' = [sub EXCEPT ![i].pc = "submit", ![i].lgen = j,
                                     ![i].job = j, ![i].seen = j]
          ELSE /\ UNCHANGED <<lock, jobs>>
               /\ sub' = Raises(i)
    /\ UNCHANGED <<confVars, marker, claims, backlog, backfill, bfWrites, notif,
                   dispatched, lastJob, removed, pubVars, uno>>

\* apply, after the lock is reclaimed: get_batches_for_prefix raises NotFound
\* when the prefix holds no data file; otherwise the load (or query) job is
\* submitted under the job id.
SubSubmit(i) ==
    /\ sub[i].pc = "submit"
    /\ IF sub[i].item \in empty
       THEN /\ sub' = Raises(i)
            /\ UNCHANGED bqVars
       ELSE /\ jobs' = [jobs EXCEPT ![sub[i].job].st = "running"]
            /\ dispatched' = Append(dispatched, sub[i].item)
            /\ lastJob' = sub[i].job
            /\ sub' = [sub EXCEPT ![i].pc = "watch", ![i].item = NoItem]
    /\ UNCHANGED <<confVars, storeVars, removed, pubVars, uno>>

\* The fail-fast watch: BigQueryJobFailure when the job has errors within
\* WAIT_FOR_JOB_SECONDS; otherwise apply returns and the loop goes on.
SubWatch(i) ==
    /\ sub[i].pc = "watch"
    /\ sub' = IF jobs[sub[i].job].st = "failed"
              THEN RaisesJobFailure(i, sub[i].job)
              ELSE [sub EXCEPT ![i] = Slept([@ EXCEPT !.pc = "loop", !.job = 0,
                                                      !.ran = TRUE])]
    /\ UNCHANGED <<confVars, storeVars, bqVars, removed, pubVars, uno>>

\* -------------------------------------------------------- entry of main
\* action_filenames.remove(None): set.remove raises KeyError when the
\* element is not in the set.
SetRemove(set, x) == [ok |-> x \in set, set |-> set \ {x}]

\* main up to the eager exit: a notification whose basename is not in
\* ACTION_FILENAMES is a no-op; action_filenames is the module's set itself,
\* and None is removed from it when START_BACKFILL_FILENAME is None.  Other
\* notifications go on to the publisher, subscriber or unordered path.
MainEntry(name) ==
    /\ Len(notes) < MaxNotes
    /\ IF name \notin actionFilenames
       THEN IF START_BACKFILL_FILENAME = None
            THEN LET r == SetRemove(actionFilenames, None) IN
                 /\ actionFilenames' = r.set
                 /\ notes' = Append(notes, [name |-> name,
                        outcome |-> IF r.ok THEN "returned" ELSE "KeyError"])
            ELSE /\ notes' = Append(notes, [name |-> name, outcome |-> "returned"])
                 /\ UNCHANGED actionFilenames
       ELSE /\ notes' = Append(notes, [name |-> name, outcome |-> "action"])
            /\ UNCHANGED actionFilenames
    /\ UNCHANGED <<ordered, empty, gate, batchVars, libVars, coordVars>>

\* ----------------------------------------------------- batcher, applied
\* apply calls get_batches_for_prefix (from load_batches or external_query)
\* on the objects found at the marker's prefix.
GetBatches ==
    /\ result = NoResult
    /\ result' = get_batches_for_prefix(bucket)
    /\ raised' = IF result'.ok THEN "none" ELSE "NotFound"
    /\ UNCHANGED <<ordered, empty, gate, mainVars, bucket, loads, libVars,
                   coordVars>>

\* The job id apply was given: create_job_id makes one id (with a fresh
\* uuid4) for each call of apply.
JobId == "gcf-ingest-ds-tbl-None-batch-uuid"

\* jobs.insert of the warehouse: a job id can be used once; a second insert
\* under an id that exists is answered 409 Conflict.
InsertAlways(ids, id) == TRUE
InsertAccepted(ids, id) == id \notin ids

\* load_batches, one turn of the loop of utils.py:107-114: the next batch
\* is handed to load_table_from_uri under job_id; Conflict is not caught and
\* ends apply.
LoadBatch ==
    /\ result.ok
    /\ raised = "none"
    /\ Len(loads) < Len(result.batches)
    /\ LET batch == result.batches[Len(loads) + 1]
           ids == {loads[k].job_id : k \in 1..Len(loads)}
       IN IF InsertAccepted(ids, JobId)
          THEN /\ loads' = Append(loads, [job_id |-> JobId, uris |-> batch])
               /\ raised' = raised
          ELSE /\ loads' = loads
               /\ raised' = "Conflict"
    /\ UNCHANGED <<ordered, empty, gate, mainVars, bucket, result, libVars,
                   coordVars>>

\* ------------------------------------------------ recursive_update, called
\* A call recursive_update(original, update, in_place).  When the call
\* raises with in_place True the caller's dict holds the keys assigned
\* before the failing one (the keys of update come in insertion order, any
\* order here).
RecursiveUpdate(original, update, in_place) ==
    /\ merged = NoCall
    /\ algebra = NoCall
    /\ LET r == recursive_update(DictVal(original), update) IN
       \E done \in SUBSET DOMAIN update :
          /\ r.kind = "error" \/ done = DOMAIN update
          /\ LET part == recursive_update(DictVal(original),
                                         [k \in done |-> update[k]])
             IN /\ part.kind # "error"
                /\ r.kind = "error" => done # DOMAIN update
                /\ merged' = [fn |-> "recursive_update",
                              original |-> original,
                              update |-> update,
                              in_place |-> in_place,
                              out |-> r,
                              after |-> OriginalAfter(DictVal(original),
                                                      in_place, part).val]
    /\ UNCHANGED <<ordered, empty, gate, mainVars, batchVars, algebra, cfgVars,
                   trigVars, coordVars>>

\* merge(x, y): recursive_update(x, y) on dicts, in_place False.
Merge(x, y) == recursive_update(DictVal(x), y).val

\* Three configs merged in both groupings, and the first two in both orders.
MergeThree(a, b, c) ==
    /\ merged = NoCall
    /\ algebra = NoCall
    /\ recursive_update(DictVal(a), b).kind = "dict"
    /\ recursive_update(DictVal(b), a).kind = "dict"
    /\ recursive_update(DictVal(b), c).kind = "dict"
    /\ recursive_update(DictVal(Merge(a, b)), c).kind = "dict"
    /\ recursive_update(DictVal(a), Merge(b, c)).kind = "dict"
    /\ algebra' = [fn |-> "merge", a |-> a, b |-> b, c |-> c,
                   ab |-> Merge(a, b), ba |-> Merge(b, a),
                   ab_c |-> Merge(Merge(a, b), c),
                   a_bc |-> Merge(a, Merge(b, c))]
    /\ UNCHANGED <<ordered, empty, gate, mainVars, batchVars, merged, cfgVars,
                   trigVars, coordVars>>

\* ------------------------------------------------- a marker, handled
\* main for the notification of the success marker object_id, through to
\* the end of its load job (submitted at once, or from the backlog when
\* ordering is enforced): the ordering decision of main.py:73-76, the
\* prefix apply computes (utils.py:696-697), the configuration of the load
\* job and its effect on the destination table.
HandleMarker(object_id) ==
    /\ Len(handled) < MaxHandled
    /\ LET enforce_ordering ==
               \/ orderAllJobs
               \/ look_for_config_in_parents(configs, object_id,
                                             "orderme").kind # "none"
           prefix == Parent(object_id)
           load_config == construct_load_job_config(configs, prefix)
           rows == Loaded(table, load_config["writeDisposition"].val,
                          prefix[Len(prefix)])
       IN /\ table' = rows
          /\ handled' = Append(handled, [object_id |-> object_id,
                                         enforce_ordering |-> enforce_ordering,
                                         load_config |-> load_config,
                                         table |-> rows])
    /\ UNCHANGED <<ordered, empty, gate, mainVars, batchVars, merged, algebra,
                   configs, orderAllJobs, trigVars, coordVars>>

\* -------------------------------------------------- main on a trigger
\* main.py:56: the payload is parsed; an exception ends the invocation.
ParseNotification ==
    /\ parsed.fn = "none"
    /\ parsed' = parse_notification(notification)
    /\ UNCHANGED <<ordered, empty, gate, mainVars, batchVars, merged, algebra,
                   cfgVars, notification, dest, defaultJobLabels, coordVars>>

\* main.py:66: the destination of the object (every object delivered is a
\* success marker outside the backlog, so the checks of main.py:58-65 pass).
PathToTableRef ==
    /\ parsed.fn = "parse"
    /\ parsed.raised = "none"
    /\ dest.fn = "none"
    /\ dest' = gcs_path_to_table_ref_and_batch(parsed.object_id)
    /\ defaultJobLabels' = LabelsAfter(defaultJobLabels, dest')
    /\ UNCHANGED <<ordered, empty, gate, mainVars, batchVars, merged, algebra,
                   cfgVars, notification, parsed, coordVars>>

\* main for a success marker with ordering off, as far as the job's labels
\* go: gcs_path_to_table_ref_and_batch (main.py:66), then apply and
\* load_batches, which sets load_config.labels = constants.DEFAULT_JOB_LABELS
\* and inserts the job.
ApplyMarker(object_id) ==
    /\ LET ref == gcs_path_to_table_ref_and_batch(object_id) IN
       /\ defaultJobLabels' = LabelsAfter(defaultJobLabels, ref)
       /\ dest' = IF ref.raised # "none" THEN ref
                  ELSE [fn |-> "apply", raised |-> "none",
                        object_id |-> object_id, batch_id |-> ref.batch_id,
                        labels |-> defaultJobLabels']
    /\ UNCHANGED <<ordered, empty, gate, mainVars, batchVars, merged, algebra,
                   cfgVars, notification, parsed, coordVars>>

\* ---------------------------------------------------------------- next
NextWarehouse ==
    \/ \E j \in 1..MaxJobs : JobSucceeds(j)
    \/ \E j \in 1..MaxJobs : JobFails(j)

\* ------------------------------------------------- the route of main
\* Object ids here are sequences of path components; the destination regex
\* puts the table at the second component.
BatchDirs == <<"2", "10", "1", "03">>
BatchDir(b) == BatchDirs[CHOOSE k \in 1..Len(BatchNames) : BatchNames[k] = b]
SuccessPath(b) == <<"ds", "tbl", BatchDir(b), SUCCESS_FILENAME>>

\* get_table_prefix: the object id up to the end of the table group.
get_table_prefix(object_id) == SubSeq(object_id, 1, 2)

\* removeprefix(in_str, prefix): the rest when in_str starts with prefix.
removeprefix(in_str, prefix) ==
    IF Len(in_str) >= Len(prefix) /\ SubSeq(in_str, 1, Len(prefix)) = prefix
    THEN SubSeq(in_str, Len(prefix) + 1, Len(in_str))
    ELSE in_str

\* success_blob_to_backlog_blob: <table prefix>/_backlog/<path of the
\* success file under the table prefix>.
success_blob_to_backlog_blob(name) ==
    get_table_prefix(name) \o <<"_backlog">>
        \o removeprefix(name, get_table_prefix(name))

\* "/_backlog/" in object_id: a component _backlog with a slash on both
\* sides.
NeverInBacklog(object_id) == FALSE
InBacklog(object_id) ==
    \E k \in 2..(Len(object_id) - 1) : object_id[k] = "_backlog"

\* os.path.basename(object_id).
basename(object_id) == object_id[Len(object_id)]

\* main.py:51-103, the branch a notification takes: the eager exit for a
\* basename that is no action filename, the exit for a success file in the
\* backlog directory, then the ordered branches or the unordered one.
Route(action_filenames, object_id, enforce_ordering) ==
    IF basename(object_id) \notin action_filenames THEN "no-op"
    ELSE IF basename(object_id) = SUCCESS_FILENAME /\ InBacklog(object_id)
    THEN "no-op"
    ELSE IF enforce_ordering
    THEN IF START_BACKFILL_FILENAME # None
            /\ basename(object_id) = START_BACKFILL_FILENAME
         THEN "start_backfill"
         ELSE IF basename(object_id) = SUCCESS_FILENAME THEN "publisher"
         ELSE IF basename(object_id) = BACKFILL_FILENAME THEN "subscriber"
         ELSE "return"
    ELSE "unordered"

\* main for the notification of the backlog object that backlog_publisher
\* wrote for b.
BacklogNotified(b) ==
    /\ ordered
    /\ b \in backlog
    /\ Len(notes) < MaxBacklogNotes
    /\ notes' = Append(notes,
          [name |-> success_blob_to_backlog_blob(SuccessPath(b)),
           outcome |-> Route(actionFilenames,
                             success_blob_to_backlog_blob(SuccessPath(b)),
                             ordered)])
    /\ UNCHANGED <<ordered, empty, gate, actionFilenames, batchVars, libVars,
                   coordVars>>

\* ------------------------------------ action files, ordering not enforced
\* Somebody uploads a _BACKFILL object at the table prefix of a table whose
\* ordering is off, empty or with content; the bucket notifies the function.
UploadBackfill(zero) ==
    /\ ~ordered
    /\ backfill = Absent
    /\ bfWrites < MaxGen
    /\ backfill' = bfWrites + 1
    /\ bfWrites' = bfWrites + 1
    /\ notif' = notif + 1
    /\ empty' = IF zero THEN empty \cup {BackfillBlob}
                ELSE empty \ {BackfillBlob}
    /\ UNCHANGED <<ordered, gate, mainVars, batchVars, libVars, marker, claims,
                   backlog, lock, bqVars, removed, pubVars, sub, uno>>

BackfillPath == <<"ds", "tbl", BACKFILL_FILENAME>>

\* main for the notification of that object: the basename is an action
\* filename and ordering is off, so main.py:94-103 runs
\* handle_duplicate_notification and apply on it as on a success file; the
\* prefix apply lists is the object's own name (removesuffix finds no
\* _SUCCESS to remove), and an empty object is skipped by the batcher.
UnoStartBackfill(u) ==
    /\ ~ordered
    /\ uno[u].pc = "idle"
    /\ notif > 0
    /\ backfill # Absent
    /\ notif' = notif - 1
    /\ uno' = IF Route(actionFilenames, BackfillPath, ordered) = "unordered"
              THEN [uno EXCEPT ![u] = [pc |-> "claim", b |-> BackfillBlob,
                                       ts |-> backfill, job |-> 0]]
              ELSE uno
    /\ UNCHANGED <<confVars, marker, claims, backlog, backfill, bfWrites, lock,
                   bqVars, removed, pubVars, sub>>

\* ------------------------------------------------ claim object names
\* Object names are sequences of tokens: path components with "/" between
\* them.  str.replace(old, new) replaces every occurrence of old.
RECURSIVE Replace(_, _, _)
Replace(name, old, new) ==
    IF name = <<>> THEN <<>>
    ELSE (IF Head(name) = old THEN new ELSE <<Head(name)>>)
             \o Replace(Tail(name), old, new)

\* str(time_created.timestamp()).
Timestamps == <<"1.0", "2.0", "3.0", "4.0">>

\* handle_duplicate_notification (utils.py:412-419): the blob's name with
\* its basename replaced by _claimed_<basename>_created_at_<timestamp>.
ClaimName(name, ts) ==
    Replace(name, basename(name),
            <<"_claimed_", basename(name), "_created_at_", Timestamps[ts]>>)

\* The entry point of src/cloud_functions (main.py:92-97): the object
\* _claimed_<timestamp> of the bucket.
LegacyClaimName(name, ts) == <<"_claimed_", Timestamps[ts]>>

EntryPoints == {"tools", "legacy"}
ClaimNameOf(entry, name, ts) ==
    IF entry = "legacy" THEN LegacyClaimName(name, ts) ELSE ClaimName(name, ts)

\* Success markers of two batches of a table, of another table, and one
\* under a directory that is itself called _SUCCESS.
MarkerPaths ==
    {<<"ds", "/", "tbl", "/", "a", "/", SUCCESS_FILENAME>>,
     <<"ds", "/", "tbl", "/", "b", "/", SUCCESS_FILENAME>>,
     <<"ds", "/", "tbl2", "/", SUCCESS_FILENAME>>,
     <<"ds", "/", "tbl", "/", SUCCESS_FILENAME, "/", SUCCESS_FILENAME>>}

\* One invocation of the deployed entry point for the notification of the
\* success marker name created at ts, up to the claim: the conditional
\* create of the claim object; PreconditionFailed ends the invocation as a
\* duplicate (RuntimeError in the legacy entry point).  The entry point is
\* that of the first invocation.
ClaimMarker(entry, name, ts) ==
    /\ Len(notes) < MaxNotes
    /\ IF notes = <<>> THEN TRUE ELSE notes[1].entry = entry
    /\ LET key == ClaimNameOf(entry, name, ts) IN
       /\ claims' = IF CreateIfAbsent(claims, key) THEN claims \cup {key}
                    ELSE claims
       /\ notes' = Append(notes,
             [entry |-> entry, name |-> name, ts |-> ts,
              outcome |-> IF CreateIfAbsent(claims, key) THEN "claimed"
                          ELSE "duplicate"])
    /\ UNCHANGED <<ordered, empty, gate, actionFilenames, batchVars, libVars, marker, backlog, backfill, bfWrites,
                   notif, lock, bqVars, removed, pubVars, sub, uno>>

\* The unordered path of main (main.py:94-103) and its environment.
NextUnordered ==
    \/ NextWarehouse
    \/ \E b \in Batches : Reupload(b)
    \/ \E u \in 1..NUno, b \in Batches : UnoStart(u, b)
    \/ \E u \in 1..NUno : UnoClaim(u)
    \/ \E u \in 1..NUno : UnoApply(u)
    \/ \E u \in 1..NUno : UnoWatch(u)

\* The ordered path of main (main.py:81-93) and its environment.
Next ==
    \/ NextWarehouse
    \/ HumanLocks
    \/ HumanUnlocks
    \/ \E b \in Batches : PubEnqueue(b)
    \/ \E b \in Batches : PubStartBackfill(b)
    \/ \E i \in 1..NSub, dup \in BOOLEAN : SubStart(i, dup)
    \/ \E i \in 1..NSub : SubClaim(i)
    \/ \E i \in 1..NSub : SubHandoff(i)
    \/ \E i \in 1..NSub, hit \in BOOLEAN : SubReadLock(i, hit)
    \/ \E i \in 1..NSub : SubWait(i)
    \/ \E i \in 1..NSub : SubRemoveList(i)
    \/ \E i \in 1..NSub : SubRemoveDelete(i)
    \/ \E i \in 1..NSub : SubList(i)
    \/ \E i \in 1..NSub, elapsed \in BOOLEAN : SubDeleteBackfill(i, elapsed)
    \/ \E i \in 1..NSub : SubRelist(i)
    \/ \E i \in 1..NSub : SubUnlock(i)
    \/ \E i \in 1..NSub : SubLockExists(i)
    \/ \E i \in 1..NSub : SubLockWrite(i)
    \/ \E i \in 1..NSub : SubSubmit(i)
    \/ \E i \in 1..NSub : SubWatch(i)

Spec == Init /\ [][Next]_vars

\* The ordered path with the start gate configured.
NextGate ==
    \/ Next
    \/ StartFileUploaded
    \/ MainStartBackfill

SpecGate == InitGate /\ [][NextGate]_vars

\* The ordered path with the notifications of the backlog objects.
NextBacklog ==
    \/ Next
    \/ \E b \in Batches : BacklogNotified(b)

SpecBacklog == Init /\ [][NextBacklog]_vars

\* The ordered path while success markers may be deleted.
NextDeletion ==
    \/ Next
    \/ \E b \in Batches : DeleteMarker(b)

SpecDeletion == Init /\ [][NextDeletion]_vars

\* One process and the notifications it gets, with START_BACKFILL_FILENAME
\* unset or configured, ordering on or off.
InitMain ==
    /\ ordered \in BOOLEAN
    /\ gate \in {"unset", "closed"}
    /\ bucket = NoObjects
    /\ InitStore
    /\ InitLib

NextMain == \E name \in Basenames : MainEntry(name)

SpecMain == InitMain /\ [][NextMain]_vars

\* The batcher on every content of a marker's prefix: each object absent or
\* of a size up to MaxSize.
InitBatch ==
    /\ ordered = FALSE
    /\ gate = "unset"
    /\ bucket \in [ObjectNames -> {NoObject} \cup 0..MaxSize]
    /\ InitStore
    /\ InitLib

NextBatch ==
    \/ GetBatches
    \/ LoadBatch

SpecBatch == InitBatch /\ [][NextBatch]_vars

SpecUnordered == InitUnordered /\ [][NextUnordered]_vars

\* The unordered path with notifications of a _BACKFILL object.
NextActionFiles ==
    \/ NextUnordered
    \/ \E zero \in BOOLEAN : UploadBackfill(zero)
    \/ \E u \in 1..NUno : UnoStartBackfill(u)

SpecActionFiles == InitUnordered /\ [][NextActionFiles]_vars

\* The claims of one deployment, tools or legacy, on notifications of
\* success markers.
NextClaims ==
    \E entry \in EntryPoints, name \in MarkerPaths, ts \in 1..MaxTs :
        ClaimMarker(entry, name, ts)

SpecClaims == InitUnordered /\ [][NextClaims]_vars

\* Both paths of main: ordering enforced for the table, or not.
InitModes == Init \/ InitUnordered
NextModes == Next \/ NextUnordered
SpecModes == InitModes /\ [][NextModes]_vars

\* One call in each behaviour: recursive_update on every pair of dicts of
\* depth up to two, or the merges of every three configs.
InitMerge ==
    /\ ordered = FALSE
    /\ gate = "unset"
    /\ bucket = NoObjects
    /\ InitStore
    /\ InitLib

NextMerge ==
    \/ /\ merged = NoCall /\ algebra = NoCall
       /\ \E original \in Nested, update \in Nested, in_place \in BOOLEAN :
             RecursiveUpdate(original, update, in_place)
    \/ /\ merged = NoCall /\ algebra = NoCall
       /\ \E a \in Mixed, b \in Mixed, c \in Mixed : MergeThree(a, b, c)

SpecMerge == InitMerge /\ [][NextMerge]_vars

\* The config resolver on every placement of load.json and ORDERME under
\* the ancestors of the markers, with ORDER_ALL_JOBS on or off.
InitConfig ==
    /\ ordered = FALSE
    /\ gate = "unset"
    /\ bucket = NoObjects
    /\ InitStore
    /\ merged = NoCall
    /\ algebra = NoCall
    /\ configs \in [ConfigDirs -> [load : LoadContents,
                                    orderme : OrdermeContents]]
    /\ orderAllJobs \in BOOLEAN
    /\ handled = <<>>
    /\ table = <<>>
    /\ InitNoTrigger

NextConfig == \E object_id \in MarkerIds : HandleMarker(object_id)

SpecConfig == InitConfig /\ [][NextConfig]_vars

\* One process and the success markers it is notified of, one invocation
\* after the other, ordering off.
LabelObjectIds ==
    {<<"d", "s", "/", "t", "b", "l", "/">> \o m
        \o <<"_", "S", "U", "C", "C", "E", "S", "S">> :
            m \in Middles(MaxLabelMiddle)}

NextLabels == \E object_id \in LabelObjectIds : ApplyMarker(object_id)

SpecLabels == InitUnordered /\ [][NextLabels]_vars

\* One invocation of main on every payload.
InitTrigger ==
    /\ ordered = FALSE
    /\ gate = "unset"
    /\ bucket = NoObjects
    /\ InitStore
    /\ merged = NoCall
    /\ algebra = NoCall
    /\ configs = [d \in ConfigDirs |-> [load |-> NoFile, orderme |-> NoFile]]
    /\ orderAllJobs = FALSE
    /\ handled = <<>>
    /\ table = <<>>
    /\ \E object_id \in ObjectIds : notification \in Notifications(object_id)
    /\ parsed = NoCall
    /\ dest = NoCall
    /\ defaultJobLabels = DEFAULT_JOB_LABELS

NextTrigger == ParseNotification \/ PathToTableRef

SpecTrigger == InitTrigger /\ [][NextTrigger]_vars

\* ============================================================== claims
Attempted(u) == uno[u].pc \notin {"idle", "claim"}
Won(u) == uno[u].pc \in {"apply", "watch", "done", "err"}
Finished(u) == uno[u].pc \in {"done", "err", "dup"}
UnoKey(u) == ClaimKey(uno[u].b, uno[u].ts)
SameKey(u) == {v \in 1..NUno : Attempted(v) /\ UnoKey(v) = UnoKey(u)}
Submitted(b) == {j \in 1..Len(jobs) : jobs[j].item = b /\ jobs[j].st # "new"}
Outstanding == {j \in 1..Len(jobs) : jobs[j].st = "running"}

\* C1: among the invocations that called handle_duplicate_notification on
\* the same marker with the same creation timestamp, exactly one created
\* the claim object and every other one got DuplicateNotification.
C1_ExactlyOneClaimWins ==
    \A u \in 1..NUno :
        Attempted(u) =>
            /\ UnoKey(u) \in claims
            /\ Cardinality({v \in SameKey(u) : Won(v)}) = 1
            /\ \A v \in SameKey(u) : Won(v) \/ uno[v].pc = "dup"

C1_Witness ==
    \E u, v \in 1..NUno :
        /\ u # v
        /\ Attempted(u) /\ Attempted(v)
        /\ UnoKey(u) = UnoKey(v)
        /\ Won(u) /\ uno[v].pc = "dup"

\* C2: unordered mode: of the deliveries of one _SUCCESS notification (same
\* marker, same creation time) at most one submits a job; a delivery that
\* ended in DuplicateNotification submitted none; and once all of them are
\* over, exactly one has submitted when the marker's prefix holds data.
C2_UnorderedAtMostOnce ==
    \A u \in 1..NUno :
        Attempted(u) =>
            /\ Cardinality({v \in SameKey(u) : uno[v].job # 0}) <= 1
            /\ (uno[u].pc = "dup" => uno[u].job = 0)
            /\ ((uno[u].b \notin empty /\ \A v \in SameKey(u) : Finished(v))
                  => Cardinality({v \in SameKey(u) : uno[v].job # 0}) = 1)
            /\ Cardinality(Submitted(uno[u].b)) <= marker[uno[u].b]

C2_Witness ==
    \E u, v \in 1..NUno :
        /\ u # v
        /\ UnoKey(u) = UnoKey(v)
        /\ uno[u].pc = "done" /\ uno[u].job # 0
        /\ uno[v].pc = "dup" /\ uno[v].job = 0
        /\ Cardinality(Submitted(uno[u].b)) = 1

\* ------------------------------------------------------ ordered path
Idle == /\ \A i \in 1..NSub : sub[i].pc = "idle"
        /\ \A b \in Batches : pub[b] = "idle"
NoJobFailed == \A j \in 1..Len(jobs) : jobs[j].st # "failed"
SubmitStep == Len(dispatched') = Len(dispatched) + 1
RemoveStep == backlog' # backlog /\ backlog' \subseteq backlog
Least(x, items) == x \in items /\ \A y \in items : LexLeq(x, y)

\* C3: ordered mode: a marker whose backlog entry was drained after its job
\* succeeded gets no further job, whatever duplicate deliveries of its
\* notification arrive (at most one job per success marker).
C3_AtMostOnePerMarker ==
    [][SubmitStep =>
         LET b == dispatched'[Len(dispatched')] IN
         ~(removed = b /\ \E j \in Submitted(b) : jobs[j].st = "done")]_vars

\* C4: per-table serialization: at most one job of the table is in a
\* non-terminal state (PENDING or RUNNING).
C4_OneOutstandingJob == Cardinality(Outstanding) <= 1

C7_NoOrphanedBacklog ==
    (ordered /\ Idle /\ NoJobFailed)
        => ~(backlog # {} /\ backfill = Absent)

\* C8: restart handoff without duplicate dispatch: with every notification
\* delivered once, an invocation that finds a predecessor's job id in the
\* lock does not dispatch a job for an item that already has one.
C8_NoDuplicateDispatchAfterRestart ==
    [][\A i \in 1..NSub :
         (/\ dups = 0
          /\ sub[i].pc \in {"lockput", "lockcreate"}
          /\ sub'[i].pc = "submit"
          /\ sub[i].lgen = NoGen)
            => Submitted(sub[i].item) = {}]_vars

\* C9: single subscriber: at most one invocation is between its claim of
\* _BACKFILL and its exit.
C9_SingleSubscriber == Cardinality({i \in 1..NSub : InLoop(i)}) <= 1

\* C10: clean drain: when nothing runs any more (every publisher and
\* subscriber returned, every notification delivered, no job outstanding or
\* failed, no manual lock, data present), the backlog is empty, every
\* delivered marker had a job dispatched, and _bqlock and _BACKFILL are
\* absent; and while a job is outstanding the lock is present.
C10_CleanDrain ==
    /\ (ordered /\ Idle /\ NoJobFailed /\ notif = 0 /\ Outstanding = {}
          /\ lock # Manual /\ empty = {})
         => /\ backlog = {}
            /\ \A b \in delivered : Submitted(b) # {}
            /\ lock = Absent
            /\ backfill = Absent
    /\ (ordered /\ Outstanding # {}) => lock # Absent

\* C11: subscriber termination and handoff.  Every iteration that comes
\* back to the while test has spent a polling period (also under a manual
\* hold), an invocation whose polling periods are used up does nothing but
\* leave the loop, so the number of iterations is bounded; and leaving the
\* loop at the while test writes a new generation of _BACKFILL that nobody
\* has claimed and whose notification is pending.
C11_TerminatesAndHandsOff ==
    [][\A i \in 1..NSub :
         /\ (sub[i].pc = "loop" /\ sub[i].ran) => sub[i].slept
         /\ sub[i].ticks <= MaxTicks
         /\ (sub[i].pc = "loop" /\ sub[i].ticks = MaxTicks /\ sub'[i] # sub[i])
               => sub'[i] = IdleSub
         /\ (sub[i].pc = "loop" /\ sub'[i].pc = "idle")
               => /\ backfill' # Absent
                  /\ backfill' # backfill
                  /\ backfill' # sub[i].gen
                  /\ ClaimKey(BackfillBlob, backfill') \notin claims'
                  /\ notif' = notif + 1]_vars

C11_Witness ==
    /\ lock = Manual
    /\ backlog # {}
    /\ backfill = 2
    /\ \E i \in 1..NSub :
         /\ sub[i].pc = "loop"
         /\ sub[i].gen = 2
         /\ ClaimKey(BackfillBlob, 1) \in claims

\* C12: lock payload: a lock that holds a job id holds the id of the job the
\* subscriber submitted last, or one its writer is about to submit; the id
\* never names a job that was not and will not be submitted.
C12_LockNamesLatestJob ==
    (ordered /\ lock # Absent /\ lock # Manual)
        => /\ lock \in 1..Len(jobs)
           /\ \/ jobs[lock].st # "new" /\ lastJob = lock
              \/ \E i \in 1..NSub : sub[i].pc = "submit" /\ sub[i].job = lock

\* C13: lock ownership by generation: a subscriber's write or delete of
\* _bqlock goes through only when the lock is still what that subscriber
\* last read or wrote; when somebody else created, changed or deleted it
\* since, the operation fails and leaves the lock as it is.
C13_LockOwnedByGeneration ==
    [][\A i \in 1..NSub :
         (/\ sub[i].pc \in {"lockput", "lockcreate", "unlock"}
          /\ sub'[i] # sub[i]
          /\ lock # sub[i].seen)
            => (lock' = lock /\ sub'[i].pc = "err")]_vars

\* C14: manual hold: while _bqlock holds a payload that is not a job id, no
\* step of a subscriber overwrites or deletes the lock, removes a backlog
\* item or submits a job, whenever the operator placed the lock.
C14_ManualHoldRespected ==
    [][(lock = Manual /\ sub' # sub)
          => /\ lock' = Manual
             /\ backlog \subseteq backlog'
             /\ Len(dispatched') = Len(dispatched)]_vars

ObservedJobFailure(i) == sub[i].pc = "err" /\ sub[i].job # 0

\* C15: job failure in ordered mode: the step in which a subscriber raises
\* BigQueryJobFailure leaves the lock (holding the job id), _BACKFILL and the
\* backlog as they are, all present; and from then on no job is submitted,
\* the lock and _BACKFILL stay and no backlog item is removed (the operator
\* does not act on a lock that holds a job id).
C15_JobFailureStops ==
    [][/\ \A i \in 1..NSub :
            (~ObservedJobFailure(i) /\ ObservedJobFailure(i)')
                => /\ lock' = lock /\ lock # Absent /\ lock # Manual
                   /\ backfill' = backfill /\ backfill # Absent
                   /\ backlog' = backlog /\ backlog # {}
       /\ (\E i \in 1..NSub : ObservedJobFailure(i))
                => /\ ~SubmitStep
                   /\ lock' = lock
                   /\ backfill' = backfill
                   /\ backlog \subseteq backlog']_vars

C17_NonActionIsNoOp ==
    /\ \A k \in 1..Len(notes) :
         notes[k].name \notin (ACTION_FILENAMES \ {None})
            => notes[k].outcome = "returned"
    /\ claims = {} /\ backlog = {} /\ backfill = Absent /\ lock = Absent
    /\ jobs = <<>>


\* --------------------------------------------------------------- C18
RECURSIVE Flatten(_)
Flatten(batches) ==
    IF batches = <<>> THEN <<>> ELSE Head(batches) \o Flatten(Tail(batches))

NameOf(uri) == SubSeq(uri, Len(Uri(<<>>)) + 1, Len(uri))

RECURSIVE BatchBytes(_)
BatchBytes(batch) ==
    IF batch = <<>> THEN 0
    ELSE bucket[NameOf(Head(batch))] + BatchBytes(Tail(batch))

\* The files the batcher is to load: the direct children of the prefix
\* that are neither the marker, nor the root entry, nor empty, nor under
\* _config/.
Qualifying ==
    {n \in ObjectNames :
        /\ bucket[n] # NoObject
        /\ bucket[n] # 0
        /\ StartsWith(n, PrefixName)
        /\ ~HasToken(SubSeq(n, Len(PrefixName) + 1, Len(n)), "/")
        /\ n \notin {MarkerName, RootEntry}
        /\ ~StartsWith(n, PrefixName \o <<"_config", "/">>)}

QualifyingUris ==
    LET names == Sorted(Qualifying)
    IN [k \in 1..Len(names) |-> Uri(names[k])]

\* C18: the concatenation of the emitted batches is the qualifying files in
\* listing order, and every emitted batch either has a total size of at most
\* MAX_BATCH_BYTES or is a single file.
C18_BatcherPartition ==
    result # NoResult =>
        /\ Flatten(result.batches) = QualifyingUris
        /\ \A k \in 1..Len(result.batches) :
              \/ BatchBytes(result.batches[k]) <= MAX_BATCH_BYTES
              \/ Len(result.batches[k]) = 1

\* --------------------------------------------------------------- C19
\* C19: every emitted batch holds at most MAX_SOURCE_URIS_PER_LOAD URIs, up
\* to the boundary of the fill rule (a URI is added while the batch holds at
\* most MAX_SOURCE_URIS_PER_LOAD, so one more at the most).
C19_BatchCardinality ==
    \A k \in 1..Len(result.batches) :
        Len(result.batches[k]) <= MAX_SOURCE_URIS_PER_LOAD + 1

\* --------------------------------------------------------------- C20
\* C20: no emitted batch contains the URI of the success marker, of the
\* root prefix entry, of a zero-byte object or of an object under _config/,
\* whatever the size of the marker and of the _config objects.
C20_BatcherExclusions ==
    \A k \in 1..Len(result.batches) :
        \A u \in 1..Len(result.batches[k]) :
            LET n == NameOf(result.batches[k][u])
            IN /\ n # MarkerName
               /\ n # RootEntry
               /\ bucket[n] # 0
               /\ ~StartsWith(n, PrefixName \o <<"_config", "/">>)

\* --------------------------------------------------------------- C21
\* C21: when no qualifying data object is under the marker's prefix, the
\* batcher fails for want of source files (NotFound, "No files found") and
\* no load job is submitted.
C21_NoSourceFiles ==
    (result # NoResult /\ Qualifying = {}) =>
        /\ ~result.ok
        /\ raised = "NotFound"
        /\ loads = <<>>

\* --------------------------------------------------------------- C29
\* C29: the load path submits one load job per batch, in batch order, all
\* under the job id apply was given, and a job-id collision between them
\* raises no error and leaves no batch unsubmitted.
C29_OneJobPerBatch ==
    result.ok =>
        /\ raised = "none"
        /\ Len(loads) <= Len(result.batches)
        /\ \A k \in 1..Len(loads) :
              loads[k] = [job_id |-> JobId, uris |-> result.batches[k]]

\* --------------------------------------------------------------- C24
\* original holds a dict (or nothing) wherever update holds a dict, at every
\* depth: the pairs on which a recursive merge of the two values is defined.
RECURSIVE Compatible(_, _)
Compatible(orig, upd) ==
    \A k \in DOMAIN upd \cap DOMAIN orig :
        upd[k].kind = "dict" =>
            /\ orig[k].kind = "dict"
            /\ Compatible(orig[k].val, upd[k].val)

\* res is the deep merge of upd into orig: its keys are those of both; a
\* key of upd with a dict holds the deep merge of orig's dict (none: the
\* empty one) with it; a key of upd with a list or scalar holds upd's value;
\* a key of orig alone holds orig's value.
RECURSIVE DeepMerged(_, _, _)
DeepMerged(res, orig, upd) ==
    /\ DOMAIN res = DOMAIN orig \cup DOMAIN upd
    /\ \A k \in DOMAIN res :
          IF k \in DOMAIN upd
          THEN IF upd[k].kind = "dict"
               THEN /\ res[k].kind = "dict"
                    /\ DeepMerged(res[k].val,
                                  IF k \in DOMAIN orig THEN orig[k].val
                                  ELSE EmptyDict,
                                  upd[k].val)
               ELSE res[k] = upd[k]
          ELSE res[k] = orig[k]

\* C24: recursive_update(original, update) returns the deep merge of update
\* into original (dicts merged at every depth with the keys of original
\* alone kept, lists and scalars replaced by update's value), and with
\* in_place False the original argument is left as it was.
C24_DeepMerge ==
    (merged.fn = "recursive_update"
        /\ Compatible(merged.original, merged.update)) =>
        /\ merged.out.kind = "dict"
        /\ DeepMerged(merged.out.val, merged.original, merged.update)
        /\ ~merged.in_place => merged.after = merged.original

\* A nested dict merged key by key (a key of original alone kept at depth
\* two, a scalar replaced by a list there), with in_place False.
C24_Witness ==
    /\ merged.fn = "recursive_update"
    /\ ~merged.in_place
    /\ merged.original =
          [k \in {"a"} |-> DictVal([j \in {"a", "b"} |-> ScalarVal("x")])]
    /\ merged.update =
          [k \in {"a"} |-> DictVal([j \in {"b"} |-> ListVal(<<"x", "y">>)])]
    /\ merged.out.val["a"].val["a"] = ScalarVal("x")
    /\ merged.out.val["a"].val["b"] = ListVal(<<"x", "y">>)

\* --------------------------------------------------------------- C25
Shared(x, y) == DOMAIN x \cap DOMAIN y
SharedNonDict(x, y) ==
    \A k \in Shared(x, y) : x[k].kind # "dict" /\ y[k].kind # "dict"
InClaim25 ==
    /\ algebra.fn = "merge"
    /\ SharedNonDict(algebra.a, algebra.b)
    /\ SharedNonDict(algebra.b, algebra.c)
    /\ SharedNonDict(algebra.a, algebra.c)
Associative25 == algebra.ab_c = algebra.a_bc
LaterWins25 ==
    \A k \in Shared(algebra.a, algebra.b) : algebra.ab[k] = algebra.b[k]

\* C25: over configs whose shared keys hold non-dict values the merge is
\* associative, the later operand wins on a shared key, and merge(a, b) =
\* merge(b, a) holds only when the key sets of a and b are disjoint.
C25_MergeAlgebra ==
    InClaim25 =>
        /\ Associative25
        /\ LaterWins25
        /\ algebra.ab = algebra.ba => Shared(algebra.a, algebra.b) = {}

\* C25, amended: the merge is associative, the later operand wins on a
\* shared key, and merge(a, b) = merge(b, a) holds exactly when a and b hold
\* the same value under every key they share.
C25_MergeAlgebraAmended ==
    InClaim25 =>
        /\ Associative25
        /\ LaterWins25
        /\ algebra.ab = algebra.ba <=>
              \A k \in Shared(algebra.a, algebra.b) :
                  algebra.a[k] = algebra.b[k]

\* Three configs that all set key a, the first two to the same value and the
\* third to another: the first two commute, the third wins in both
\* groupings.
C25_Witness ==
    /\ InClaim25
    /\ Shared(algebra.a, algebra.b) # {}
    /\ algebra.ab = algebra.ba
    /\ "a" \in DOMAIN algebra.a \cap DOMAIN algebra.b \cap DOMAIN algebra.c
    /\ algebra.c["a"] # algebra.b["a"]
    /\ algebra.ab_c["a"] = algebra.c["a"]
    /\ algebra.a_bc["a"] = algebra.c["a"]


\* ------------------------------------------------ claims C22, C23, C26
\* The directories from the marker's own directory up to the bucket root.
RECURSIVE Ancestors(_)
Ancestors(dir) ==
    IF dir = <<>> THEN {<<>>} ELSE {dir} \cup Ancestors(Parent(dir))
SetsKey(dir, k) ==
    /\ dir \in ConfigDirs
    /\ configs[dir].load.kind = "json"
    /\ k \in DOMAIN configs[dir].load.val
\* The value of key k in the load.json nearest to dir, the base default
\* when no ancestor sets k.
RECURSIVE NearestValue(_, _)
NearestValue(dir, k) ==
    IF SetsKey(dir, k) THEN configs[dir].load.val[k]
    ELSE IF dir = <<>> THEN BASE_LOAD_JOB_CONFIG[k]
    ELSE NearestValue(Parent(dir), k)

\* C22: in the load-job configuration of every marker handled, each key
\* carries the value of the load.json nearest to the marker among those of
\* its ancestors that set the key, and the base default only when none does.
C22_NearestWins ==
    \A i \in 1..Len(handled) :
        \A k \in DOMAIN handled[i].load_config :
            handled[i].load_config[k]
                = NearestValue(Parent(handled[i].object_id), k)

BatchOf(i) == handled[i].object_id[Len(handled[i].object_id) - 1]
Disposition(i) == handled[i].load_config["writeDisposition"].val
OnlyTableTruncate ==
    \A dir \in ConfigDirs :
        configs[dir].load = IF dir = <<"ds", "tbl">> THEN JsonFile(Truncate)
                            ELSE NoFile
NoLoadJson == \A dir \in ConfigDirs : configs[dir].load = NoFile

\* C23: with load.json only at ds/tbl/_config/ and setting WRITE_TRUNCATE,
\* every load job uses WRITE_TRUNCATE and leaves in the table the rows of
\* its own batch only; with no load.json at all every load job uses
\* WRITE_APPEND and the table holds the rows of every batch handled so far.
C23_TableLevelOverride ==
    \A i \in 1..Len(handled) :
        /\ OnlyTableTruncate =>
               /\ Disposition(i) = "WRITE_TRUNCATE"
               /\ handled[i].table = <<BatchOf(i)>>
        /\ NoLoadJson =>
               /\ Disposition(i) = "WRITE_APPEND"
               /\ handled[i].table = [j \in 1..i |-> BatchOf(j)]
\* Two successive batches under the table-level WRITE_TRUNCATE: the table
\* holds the rows of batchB only.
C23_Witness ==
    /\ OnlyTableTruncate
    /\ Len(handled) = 2
    /\ BatchOf(1) = "batchA"
    /\ BatchOf(2) = "batchB"
    /\ table = <<"batchB">>

\* C26: a marker is handled in ordered mode exactly when ORDER_ALL_JOBS is
\* set or an object ORDERME exists, with any content, under _config/ of a
\* directory from the marker's own up to the bucket root.
C26_OrdermePresence ==
    \A i \in 1..Len(handled) :
        handled[i].enforce_ordering
            <=> \/ orderAllJobs
                \/ \E dir \in Ancestors(Parent(handled[i].object_id)) :
                       /\ dir \in ConfigDirs
                       /\ configs[dir].orderme.kind # "none"


\* ---------------------------------------------------- claims C27, C28
DirectComplete ==
    /\ {"kind", "bucket", "name"} \subseteq DOMAIN notification
    /\ notification["kind"] = "storage#object"
PubSubComplete ==
    /\ "attributes" \in DOMAIN notification
    /\ AttributeKeys \subseteq DOMAIN notification["attributes"]
DirectForm ==
    "kind" \in DOMAIN notification /\ notification["kind"] = "storage#object"

\* C27: parse_notification returns (bucket, object) for a payload that is a
\* complete Pub/Sub form or a complete direct object form, and fails with
\* UnexpectedTrigger, and nothing else, for every other payload.
C27_Envelope ==
    parsed.fn = "parse" =>
        IF DirectComplete \/ PubSubComplete
        THEN /\ parsed.raised = "none"
             /\ parsed.bucket_id = "bkt"
             /\ parsed.object_id \in ObjectIds
        ELSE parsed.raised = "UnexpectedTriggerException"

\* The partition the captured groups stand for: the explicit one, else "$"
\* and the captured date components in order, else none.
RECURSIVE Concat(_)
Concat(groups) ==
    IF groups = <<>> THEN <<>>
    ELSE (IF Head(groups).kind = "str" THEN Head(groups).val ELSE <<>>)
         \o Concat(Tail(groups))
ExpectedPartition(c) ==
    IF c.partition.kind = "str" THEN c.partition
    ELSE IF c.yyyy.kind = "str"
    THEN Group(<<"$">> \o Concat(<<c.yyyy, c.mm, c.dd, c.hh>>))
    ELSE NoGroup

\* C28: for every object id that matches the destination pattern the
\* destination is derived without error, and its partition is the explicit
\* $<digits> when one is captured, else "$" followed by the captured date
\* components (trailing ones that are missing left out), else none.
C28_PartitionDerivation ==
    dest.fn = "table_ref" =>
        /\ dest.raised = "none"
        /\ dest.partition
               = ExpectedPartition(DESTINATION_REGEX_match(parsed.object_id))


\* --------------------------------------------------------------- C30
\* C30: every read of the lock by the subscriber gives the content the
\* store holds at the time of the read, and every listing of the backlog
\* gives the first item the store holds at the time of the listing.
C30_ControlStateNotCached ==
    [][\A i \in 1..NSub :
          /\ (sub[i].pc = "loop" /\ sub'[i] # sub[i] /\ sub'[i].pc # "idle")
                 => sub'[i].seen = lock
          /\ (sub[i].pc \in {"list", "rmlist"} /\ sub'[i] # sub[i])
                 => sub'[i].item = FirstListed(backlog)]_vars


\* --------------------------------------------------------------- C31
\* The object store and the warehouse jobs.
Effects == <<claims, backlog, lock, backfill, marker, jobs, dispatched>>
UnoDuplicate(u) ==
    uno[u].pc = "claim" /\ ClaimKey(uno[u].b, uno[u].ts) \in claims
SubDuplicate(i) ==
    sub[i].pc = "claim" /\ ClaimKey(BackfillBlob, sub[i].gen) \in claims

\* C31: an invocation whose claim attempt finds the claim object in place
\* ends there with DuplicateNotification, and neither its start nor its
\* claim attempt changes the object store or the warehouse jobs.
C31_DuplicateHasNoEffect ==
    [][/\ \A u \in 1..NUno :
             /\ (uno[u].pc = "idle" /\ uno'[u].pc = "claim")
                    => UNCHANGED Effects
             /\ (UnoDuplicate(u) /\ uno'[u] # uno[u])
                    => uno'[u].pc = "dup" /\ UNCHANGED Effects
       /\ \A i \in 1..NSub :
             /\ (sub[i].pc = "idle" /\ sub'[i].pc = "claim")
                    => UNCHANGED Effects
             /\ (SubDuplicate(i) /\ sub'[i] # sub[i])
                    => sub'[i].pc = "idle" /\ UNCHANGED Effects]_vars
\* A duplicate delivery in unordered mode has ended in DuplicateNotification.
C31_Witness ==
    \E u, v \in 1..NUno :
        /\ u # v
        /\ uno[u].pc = "dup"
        /\ uno[v].pc \in {"apply", "watch", "done", "err"}
        /\ uno[u].b = uno[v].b /\ uno[u].ts = uno[v].ts


\* --------------------------------------------------------------- C32
\* C32: unordered mode.  A re-upload of a success marker leaves it with a
\* claim key that no claim object has; a claim attempt on a key without
\* claim object creates it and goes on to apply; and of the invocations on
\* one (marker, creation time) pair at most one submits a job.
C32_ReuploadReruns ==
    [][/\ \A b \in Batches :
             marker'[b] # marker[b] => ClaimKey(b, marker'[b]) \notin claims'
       /\ \A u \in 1..NUno :
             /\ (uno[u].pc = "claim" /\ UnoKey(u) \notin claims
                    /\ uno'[u] # uno[u])
                    => uno'[u].pc = "apply" /\ UnoKey(u) \in claims'
             /\ Cardinality({v \in 1..NUno :
                                /\ uno'[v].b = uno'[u].b
                                /\ uno'[v].ts = uno'[u].ts
                                /\ uno'[v].job # 0}) <= 1]_vars
\* The marker of one batch was uploaded twice and each upload got its job.
C32_Witness ==
    \E u, v \in 1..NUno :
        /\ uno[u].b = uno[v].b
        /\ uno[u].ts < uno[v].ts
        /\ uno[u].job # 0 /\ uno[v].job # 0
        /\ jobs[uno[u].job].item = uno[u].b
        /\ jobs[uno[v].job].item = uno[v].b


\* --------------------------------------------------------------- C33
\* The subscriber is about to list a backlog whose first item stands for a
\* success marker that is not in the bucket.
HeadWithoutMarker(i) ==
    /\ sub[i].pc = "list"
    /\ get_next_backlog_item # NoItem
    /\ marker[get_next_backlog_item] = Absent

\* C33: a subscriber that lists a backlog item whose success marker does
\* not exist raises there: the step writes no lock, submits no job and
\* removes no backlog item.
C33_BacklogInconsistent ==
    [][\A i \in 1..NSub :
          (HeadWithoutMarker(i) /\ sub'[i] # sub[i])
              => /\ sub'[i].pc = "err"
                 /\ UNCHANGED <<lock, jobs, dispatched, backlog, removed>>]_vars
\* An invocation has raised while the first backlog item has no marker and
\* no job was ever created for it.
C33_Witness ==
    \E i \in 1..NSub :
        /\ sub[i].pc = "err"
        /\ get_next_backlog_item # NoItem
        /\ marker[get_next_backlog_item] = Absent
        /\ \A j \in 1..Len(jobs) : jobs[j].item # get_next_backlog_item


\* --------------------------------------------------------------- C34
\* C34: a subscriber that listed an empty backlog and finds more than
\* ENSURE_SUBSCRIBER_SECONDS elapsed at its attempt to delete _BACKFILL does
\* not delete it: _BACKFILL is still there when it lists again, and still
\* there when it continues the loop because an item has appeared.
C34_RefusesLateDelete ==
    [][\A i \in 1..NSub :
          /\ (sub[i].pc = "delbf" /\ sub'[i].pc = "relist")
                 => (backfill' = backfill /\ backfill' # Absent)
          /\ (sub[i].pc = "relist" /\ sub'[i].pc = "loop"
                 /\ backfill = sub[i].gen)
                 => backfill' # Absent]_vars


\* --------------------------------------------------------------- C35
\* A step of the publisher invocation for marker b.
PublisherStep(b) == pub'[b] # pub[b]

\* C35: in ordered mode a step of the invocation that handles a success
\* marker adds at most that marker's backlog object and creates at most the
\* _BACKFILL object; it writes no lock, no claim and no job; and the
\* notification of a backlog object ends as a no-op.
C35_PublisherFrame ==
    [][/\ \A b \in Batches :
            PublisherStep(b) =>
                /\ UNCHANGED <<lock, jobs, dispatched, claims, removed, marker>>
                /\ backlog' \in {backlog, backlog \cup {b}}
                /\ (backfill' # backfill => backfill = Absent)
       /\ \A k \in 1..Len(notes') : notes'[k].outcome = "no-op"]_vars
\* A publisher has enqueued and created _BACKFILL, and the notification of
\* the backlog object has been handled.
C35_Witness ==
    /\ \E b \in Batches : pub[b] = "idle" /\ b \in delivered /\ b \in backlog
    /\ backfill # Absent
    /\ Len(notes) > 0
    /\ notes[1].name = <<"ds", "tbl", "_backlog", "2", SUCCESS_FILENAME>>


\* --------------------------------------------------------------- C36
\* C36: whenever a backlog item is deleted, a job dispatched for that
\* item's success marker has ended in success.
C36_RemovedAfterOwnJob ==
    [][\A b \in Batches :
          (b \in backlog /\ b \notin backlog')
              => \E j \in 1..Len(jobs) :
                     jobs[j].item = b /\ jobs[j].st = "done"]_vars


\* --------------------------------------------------------------- C37
\* Invocation i is in its first loop turn, found no lock and an empty
\* backlog, and is about to release the lock; no marker was ever published,
\* so the backlog has been empty and no job exists.
FirstTurnOnEmpty(i) ==
    /\ sub[i].pc = "unlock"
    /\ ~sub[i].ran
    /\ delivered = {}
    /\ backlog = {}
    /\ lock = Absent

\* C37: a subscriber invocation that started on an empty backlog with no
\* lock object returns normally: it does not raise, and it leaves no
\* _BACKFILL, no lock and no job.
C37_EmptyBacklogNoLock ==
    [][\A i \in 1..NSub :
          (FirstTurnOnEmpty(i) /\ sub'[i] # sub[i])
              => /\ sub'[i].pc = "idle"
                 /\ backfill' = Absent
                 /\ lock' = Absent
                 /\ jobs' = <<>>]_vars


\* --------------------------------------------------------------- C38
\* The labels a job of a marker with this batch id is to carry.
ExpectedLabels(batch_id) ==
    IF NonEmpty(batch_id)
    THEN SetItem(DEFAULT_JOB_LABELS, "batch-id", batch_id.val)
    ELSE DEFAULT_JOB_LABELS

\* C38: the labels of a notification's job depend on that notification
\* only (a marker without batch id gives a job without batch-id label,
\* whatever was handled before), and the module-level DEFAULT_JOB_LABELS has
\* its initial value after every invocation.
C38_NoStateLeak ==
    /\ defaultJobLabels = DEFAULT_JOB_LABELS
    /\ dest.fn = "apply" => dest.labels = ExpectedLabels(dest.batch_id)


\* --------------------------------------------------------------- C39
\* A step of an invocation that handles the notification of _BACKFILL.
BackfillStep(u) ==
    /\ uno'[u] # uno[u]
    /\ BackfillBlob \in {uno[u].b, uno'[u].b}

\* C39: with ordering off, the invocation for a notification whose
\* basename is _BACKFILL writes no claim object, no lock and no backlog
\* object and submits no job.
C39_UnorderedSuccessOnly ==
    [][\A u \in 1..NUno :
          BackfillStep(u)
              => UNCHANGED <<claims, lock, backlog, jobs, dispatched>>]_vars


\* --------------------------------------------------------------- C40
\* An earlier invocation claimed the same marker at the same creation time.
ClaimedBefore(k) ==
    \E j \in 1..(k - 1) :
        /\ notes[j].name = notes[k].name
        /\ notes[j].ts = notes[k].ts
        /\ notes[j].outcome = "claimed"

\* C40: in either entry point the claim objects of success markers at
\* different paths differ, also for one creation time: a notification ends
\* as a duplicate only when the same marker with the same creation time was
\* claimed before.
C40_ClaimKeysDistinct ==
    \A k \in 1..Len(notes) :
        notes[k].outcome = "duplicate" => ClaimedBefore(k)

============================================================================
